---- MODULE Spec2Model ----
(***************************************************************************)
(* Model of the MaxScale session substrate (server/core/session.cc) and    *)
(* the interfaces it uses.  One session is modelled together with its      *)
(* client DCB, its backend DCBs, the holders of session references, the    *)
(* delayed routing tasks, the short-circuit response slot, the ring of     *)
(* retained statements and the session variables.                          *)
(***************************************************************************)
EXTENDS Integers, Sequences, FiniteSets, TLC

(***************************************************************************)
(* Bounds of the model.                                                    *)
(***************************************************************************)
MaxBackends == 2
MaxRefs == 2
MaxTasks == 2
MaxHolders == 3
MaxHeld == 2
MaxRetain == 2
MaxStmts == 3
MaxSetCalls == 2
MaxHandlerCalls == 2
MaxErrors == 2
MaxTrace == 3
MaxLogLines == 5
MaxWorkers == 2
MaxIds == 5
MaxBytes == 6
MaxBuf == 2
MaxHigh == 3
MaxCloses == 2
MaxEvents == 2
MaxTriggers == 3
MaxConns == 3
MaxReads == 2
MaxAccepts == 2
MaxStarts == 1
MaxAvro == 2
MaxBroadcasts == 1
MaxClusters == 2
MaxPackets == 2
MaxQueuedCallbacks == 2
MaxFiles == 2
MaxBlocks == 3
MaxQueue == 3

BackendDCBs == 1..MaxBackends
TaskIds == 1..MaxTasks
Holders == 1..MaxHolders

NULL == "NULL"

VARIABLES
    \* ---- MXS_SESSION / Session
    m_state,        \* MXS_SESSION::m_state
    refcount,       \* MXS_SESSION::refcount
    dcb_set,        \* Session: the backend DCBs linked to the session
    freed,          \* number of times session_free() deleted the session
    start_called,   \* the listener has called session_start()
    \* ---- holders of session references
    creation_ref,   \* the reference taken in the constructor is unreleased
    ext_refs,       \* references returned by session_get_ref() to callers, unreleased
    tasks,          \* DelayedRoutingTask objects: status by task id
    task_puts,      \* number of session_put_ref() calls made by each task
    \* ---- client DCB / client connection
    client_nclose,  \* DCB::m_nClose of the client DCB
    client_log,     \* what the client connection saw, in order
    term_closes,    \* number of DCB::close(client_dcb) calls made by terminate()
    hangup_triggered, \* trigger_hangup_event() was called on the client DCB
    handle_errors,  \* number of Session::handleError calls
    session_rv,     \* value returned by the last Session::start or handleError
    n_connections,  \* service->stats().n_connections, as changed by this session
    n_current,      \* service->stats().n_current, as changed by this session
    \* ---- concurrent holders of session references (threads)
    shared_refcount, \* MXS_SESSION::refcount, updated from several threads
    holder_refs,    \* references each holder owns and has not released
    holder_pc,      \* position of each holder inside session_put_ref
    holder_old,     \* value returned to the holder by mxb::atomic::add
    free_calls,     \* number of session_free() calls
    \* ---- query routing and statement book-keeping
    debug,          \* the build has mxb_assert enabled
    fault,          \* "none", "assert" (mxb_assert aborted), "crash"
    oob,            \* an element outside m_last_queries has been accessed
    m_retain_last_statements, \* Session::m_retain_last_statements
    m_last_queries, \* Session::m_last_queries, front first
    m_current_query, \* Session::m_current_query
    response,       \* MXS_SESSION::response: the short-circuit slot
    up_calls,       \* calls of response.up.clientReply made during routeQuery
    route_pc,       \* "idle", or "downstream" inside m_down->routeQuery
    set_calls,      \* session_set_response calls during this routeQuery
    n_retained,     \* statements passed to retain_statement so far
    n_routed,       \* statements passed to routeQuery so far
    outstanding,    \* statements sent to a server and not yet answered
    partial,        \* the oldest outstanding statement has a non-final response
    only_stream,    \* only retain_statement and final responses happened so far
    short_circuited, \* statements whose routing ended in deliver_response
    \* ---- session variables
    m_variables,    \* Session::m_variables: key -> (handler, context)
    last_call,      \* the last variable operation, its name and what it found
    ret,            \* value returned by the last variable operation
    ret_context,    \* *context as left by the last remove_variable
    handler_calls,  \* calls of variable handlers: <<handler, context, key>>
    \* ---- session trace log
    session_trace,  \* this_unit.session_trace
    m_log,          \* Session::m_log, front first
    log_history,    \* every line passed to append_session_log, newest first
    \* ---- session id generator
    next_session_id, \* this_unit.next_session_id
    id_pc,          \* position of each worker inside session_get_next_id
    id_reg,         \* value mxb::atomic::add returned to the worker
    ids_got,        \* ids returned to the callers on each worker, in order
    issued,         \* values returned by the atomic updates, in their order
    \* ---- one DCB: write queue, watermarks, callbacks and close
    m_nClose,       \* DCB::m_nClose
    m_writeq,       \* DCB::m_writeq: the bytes queued, head first
    m_writeqlen,    \* DCB::m_writeqlen
    m_high_water,   \* DCB::m_high_water
    m_low_water,    \* DCB::m_low_water
    m_high_water_reached, \* DCB::m_high_water_reached
    n_high_water,   \* DCB::Stats::n_high_water
    n_low_water,    \* DCB::Stats::n_low_water
    polling,        \* the DCB is in the epoll set of its worker
    peer,           \* the bytes the peer has received, in order
    appended,       \* the bytes accepted by writeq_append, in call order
    poll_removes,   \* times the DCB was removed from the epoll set by close
    destroy_calls,  \* times Manager::destroy was called for the DCB
    dcb_last,       \* the last DCB call: what it fired, wrote and returned
    \* ---- the event handling of one DCB on its worker
    ev_pc,          \* "epoll_wait", or "handler" inside a handler invocation
    ev_current,     \* the event of the running handler invocation
    m_triggered_event, \* DCB::m_triggered_event
    ev_triggers,    \* the trigger_..._event calls of the running invocation
    ev_log,         \* the handler invocations so far: event, synthesised or not
    n_epoll,        \* events delivered by epoll_wait so far
    n_trigger_calls, \* trigger_..._event calls so far
    \* ---- the listener accepting client connections on a worker
    conn_stage,     \* each connection: "none", "rejected", "failed", "created",
                    \* "polling" (ClientDCB in the epoll set), "closed"
    init_calls,     \* calls of ClientProtocol::init_connection per connection
    init_result,    \* what init_connection returned: "none", "true", "false"
    read_calls,     \* calls of the protocol's read_ready per connection
    acc_busy,       \* the connection Listener::accept_one_dcb is working on
    \* ---- the life cycle of one listener and its failed-authentication limit
    l_state,        \* Listener::m_state
    l_fd,           \* Listener::m_fd on the worker: the listening descriptor, -1 if none
    l_polling,      \* the listening descriptor is in the readiness set of the worker
    fds_closed,     \* the listening descriptors that have been closed
    auth_failures,  \* the failed-authentication counter of each remote
    l_conns,        \* the connections accepted so far, in order
    reject_calls,   \* calls of Listener::reject_connection
    n_starts,       \* calls of Listener::start() that started the listener
    \* ---- the Avro sessions of the workers and the broadcast that notifies them
    client_sessions, \* thread_local client_sessions of each worker
    av_service,     \* AvroSession::router->service of each session
    av_owner,       \* the worker each session was created on, 0 if not created
    w_posted,       \* the tasks posted to each worker and not yet run, in order
    bc_runs,        \* runs of the broadcast task on each worker
    bc_last,        \* the last run of the broadcast task: worker and service
    cb_queued,      \* client callbacks the last run of the task queued for each session
    foreign_touch,  \* a session was used on a worker other than its own
    n_broadcasts,   \* calls of AvroSession::notify_all_clients
    \* ---- worker affinity of a session, its DCBs and its delayed tasks
    aff_debug,      \* the build has mxb_assert enabled
    aff_fault,      \* "none", or "assert" after a failed mxb_assert
    aff_owner,      \* DCB::owner of the client DCB (0) and of each backend DCB
    aff_linked,     \* the backend DCBs linked to the session
    aff_tasks,      \* the delayed routing tasks: worker of the delayed call, state
    aff_mutations,  \* <<kind, DCB, worker>>: the worker changed a field of the object
    \* ---- one smart router session
    sm_debug,       \* the build has mxb_assert enabled
    sm_fault,       \* "none", or the mxb_assert that failed
    sm_created,     \* "none" before create, then "null" (nullptr) or "session"
    sm_endpoints,   \* the endpoints given to create: target and result of connect()
    sm_master,      \* the configured master target
    m_clusters,     \* SmartRouterSession::m_clusters
    m_mode,         \* SmartRouterSession::m_mode
    m_pDelayed_packet, \* SmartRouterSession::m_pDelayed_packet: <<>> or <<packet>>
    sm_client,      \* the packets forwarded to the client for the current query
    sm_nrecv,       \* response packets received from each target for the current query
    sm_winner,      \* the target whose response packet came first for the current query
    sm_terminated,  \* "no", "plain" (terminate()) or "error" (terminate(copy of packet))
    sm_last,        \* the last call: what it returned, wrote, forwarded and terminated
    sm_route,       \* how the current query was routed: "all", "measure", "master", "target"
    \* ---- one Avro client session
    av_debug,       \* the build has mxb_assert enabled
    av_fault,       \* "none", or "assert" after a failed mxb_assert
    av_alive,       \* the AvroSession object exists
    av_state,       \* AvroSession::state
    av_format,      \* AvroSession::format
    av_binfile,     \* AvroSession::avro_binfile
    av_dcb_closed,  \* DCB::close has been called on the client DCB
    av_cbq,         \* callbacks of the session queued on its worker
    av_dangling,    \* what a callback run after the destructor did: "none", "skipped", "ran"
    av_last,        \* the last call on the session and what it did
    \* ---- the read queue of one DCB
    m_readq,        \* DCB::m_readq: the bytes of the chain, in order
    rq_held,        \* the chain the protocol got from readq_release
    rq_pc,          \* "holding" between readq_release and readq_prepend
    rq_arrived,     \* number of bytes read from the socket so far
    rq_consumed,    \* number of bytes the protocol has processed
    rq_case,        \* "prepended": a remainder was put in front of newer bytes; "appended": bytes arrived after that
    \* ---- streaming of Avro files to one client
    st_format,      \* AvroSession::format: "JSON" or "AVRO"
    st_nblocks,     \* number of data blocks of each Avro file, 0: no such file
    st_binfile,     \* AvroSession::avro_binfile, as the number of the file
    file_handle,    \* AvroSession::file_handle: file, current block, block unread
    last_sent_pos,  \* AvroSession::last_sent_pos: 0 until the schema was sent
    st_sent,        \* what was written to the client DCB, in order
    st_queue,       \* the tasks queued on the worker, oldest first
    st_last         \* the last step and what the callback did

session_vars == <<m_state, refcount, dcb_set, freed, start_called, creation_ref,
                  ext_refs, tasks, task_puts, client_nclose, client_log,
                  term_closes, hangup_triggered, handle_errors, session_rv,
                  n_connections, n_current>>

holder_vars == <<shared_refcount, holder_refs, holder_pc, holder_old, free_calls>>

query_vars == <<debug, fault, oob, m_retain_last_statements, m_last_queries,
                m_current_query, response, up_calls, route_pc, set_calls,
                n_retained, n_routed, outstanding, partial, only_stream,
                short_circuited>>

variable_vars == <<m_variables, last_call, ret, ret_context, handler_calls>>

log_vars == <<session_trace, m_log, log_history>>

id_vars == <<next_session_id, id_pc, id_reg, ids_got, issued>>

dcb_vars == <<m_nClose, m_writeq, m_writeqlen, m_high_water, m_low_water,
              m_high_water_reached, n_high_water, n_low_water, polling, peer,
              appended, poll_removes, destroy_calls, dcb_last>>

\* The groups outside the session core, and the rest as seen from each.
ev_vars == <<ev_pc, ev_current, m_triggered_event, ev_triggers, ev_log,
             n_epoll, n_trigger_calls>>

acc_vars == <<conn_stage, init_calls, init_result, read_calls, acc_busy>>

lsn_vars == <<l_state, l_fd, l_polling, fds_closed, auth_failures, l_conns,
              reject_calls, n_starts>>

bc_vars == <<client_sessions, av_service, av_owner, w_posted, bc_runs, bc_last,
             cb_queued, foreign_touch, n_broadcasts>>

aff_vars == <<aff_debug, aff_fault, aff_owner, aff_linked, aff_tasks, aff_mutations>>

sm_vars == <<sm_debug, sm_fault, sm_created, sm_endpoints, sm_master, m_clusters,
             m_mode, m_pDelayed_packet, sm_client, sm_nrecv, sm_winner,
             sm_terminated, sm_last, sm_route>>

av_vars == <<av_debug, av_fault, av_alive, av_state, av_format, av_binfile,
             av_dcb_closed, av_cbq, av_dangling, av_last>>

rq_vars == <<m_readq, rq_held, rq_pc, rq_arrived, rq_consumed, rq_case>>

st_vars == <<st_format, st_nblocks, st_binfile, file_handle, last_sent_pos,
             st_sent, st_queue, st_last>>

\* The listener life cycle and the router modules.
ext_vars == <<lsn_vars, bc_vars, aff_vars, sm_vars, av_vars, rq_vars, st_vars>>

base_io_vars == <<log_vars, id_vars, dcb_vars, ev_vars, acc_vars>>
io_vars == <<base_io_vars, ext_vars>>
core_vars == <<session_vars, holder_vars, query_vars, variable_vars>>
not_log_vars == <<core_vars, id_vars, dcb_vars, ev_vars, acc_vars, ext_vars>>
not_id_vars == <<core_vars, log_vars, dcb_vars, ev_vars, acc_vars, ext_vars>>
not_dcb_vars == <<core_vars, log_vars, id_vars, ev_vars, acc_vars, ext_vars>>
not_ev_vars == <<core_vars, log_vars, id_vars, dcb_vars, acc_vars, ext_vars>>
not_acc_vars == <<core_vars, log_vars, id_vars, dcb_vars, ev_vars, ext_vars>>
not_lsn_vars == <<core_vars, base_io_vars, bc_vars, aff_vars, sm_vars, av_vars, rq_vars, st_vars>>
not_bc_vars == <<core_vars, base_io_vars, lsn_vars, aff_vars, sm_vars, av_vars, rq_vars, st_vars>>
not_aff_vars == <<core_vars, base_io_vars, lsn_vars, bc_vars, sm_vars, av_vars, rq_vars, st_vars>>
not_sm_vars == <<core_vars, base_io_vars, lsn_vars, bc_vars, aff_vars, av_vars, rq_vars, st_vars>>
not_av_vars == <<core_vars, base_io_vars, lsn_vars, bc_vars, aff_vars, sm_vars, rq_vars, st_vars>>
not_rq_vars == <<core_vars, base_io_vars, lsn_vars, bc_vars, aff_vars, sm_vars, av_vars, st_vars>>
not_st_vars == <<core_vars, base_io_vars, lsn_vars, bc_vars, aff_vars, sm_vars, av_vars, rq_vars>>

vars == <<core_vars, io_vars>>

(***************************************************************************)
(* mxb::atomic::add(&v, d): one indivisible read-modify-write.  The new    *)
(* value is stored and the previous value is returned.                     *)
(***************************************************************************)
atomic_add_new(v, d) == v + d

atomic_add_ret(v, d) == v

(***************************************************************************)
(* Session::~Session and session_free: the session is deleted.             *)
(***************************************************************************)
session_free ==
    /\ freed' = freed + 1
    /\ m_state' = "FREE"
    /\ n_current' = atomic_add_new(n_current, -1)

(***************************************************************************)
(* session_put_ref: remove one reference; free on the 1 -> 0 transition.   *)
(***************************************************************************)
\* Fault: the last reference is dropped without freeing the session.
session_put_ref_mut ==
    /\ refcount' = atomic_add_new(refcount, -1)
    /\ UNCHANGED <<freed, m_state, n_current>>
session_put_ref ==
    /\ refcount' = atomic_add_new(refcount, -1)
    /\ IF atomic_add_ret(refcount, -1) = 1
       THEN session_free
       ELSE UNCHANGED <<freed, m_state, n_current>>

session_get_ref == refcount' = atomic_add_new(refcount, 1)

(***************************************************************************)
(* Session::link_backend_dcb / unlink_backend_dcb: the session's DCB set.  *)
(***************************************************************************)
link_backend_dcb(dcb) == dcb_set' = dcb_set \cup {dcb}
unlink_backend_dcb(dcb) == dcb_set' = dcb_set \ {dcb}

\* Fault: the DCB is linked without taking a reference.
session_link_backend_dcb_mut(dcb) ==
    /\ refcount' = refcount
    /\ link_backend_dcb(dcb)
session_link_backend_dcb(dcb) ==
    /\ refcount' = atomic_add_new(refcount, 1)
    /\ link_backend_dcb(dcb)

session_unlink_backend_dcb(dcb) ==
    /\ unlink_backend_dcb(dcb)
    /\ session_put_ref

(***************************************************************************)
(* DCB::close(client_dcb): counts the close requests; only the first one   *)
(* reaches the connection.                                                 *)
(***************************************************************************)
DCB_close_client ==
    /\ client_nclose' = client_nclose + 1
    /\ client_log' = IF client_nclose = 0
                     THEN Append(client_log, "close")
                     ELSE client_log

(***************************************************************************)
(* MXS_SESSION::terminate(error)                                           *)
(***************************************************************************)
\* Fault: no test of the state, and the error is written after the close.
terminate_mut(error) ==
    /\ m_state' = "STOPPING"
    /\ client_nclose' = client_nclose + 1
    /\ client_log' =
          LET closed == IF client_nclose = 0
                        THEN Append(client_log, "close") ELSE client_log
          IN  IF error # NULL THEN Append(closed, error) ELSE closed
    /\ term_closes' = term_closes + 1
\* terminate(error) when the client connection has seen `log` so far.
terminate_from(log, error) ==
    IF m_state = "STARTED"
    THEN /\ m_state' = "STOPPING"
         /\ client_nclose' = client_nclose + 1
         /\ client_log' =
               LET written == IF error # NULL
                              THEN Append(log, error) ELSE log
               IN  IF client_nclose = 0 THEN Append(written, "close") ELSE written
         /\ term_closes' = term_closes + 1
    ELSE /\ client_log' = log
         /\ UNCHANGED <<m_state, client_nclose, term_closes>>
terminate(error) == terminate_from(client_log, error)

(***************************************************************************)
(* Session::clientReply and Session::handleError                           *)
(***************************************************************************)
\* m_client_conn->write(gwbuf_clone(buffer)): what the client connection
\* has been handed after the call.
Session_clientReply(log, buffer) == Append(log, buffer)

\* Fault: the session is terminated before the error is written.
handleError_mut(error) ==
    /\ IF m_state = "STARTED"
       THEN /\ m_state' = "STOPPING"
            /\ client_nclose' = client_nclose + 1
            /\ client_log' =
                  Session_clientReply(IF client_nclose = 0
                                      THEN Append(client_log, "close")
                                      ELSE client_log, error)
            /\ term_closes' = term_closes + 1
       ELSE /\ client_log' = Session_clientReply(client_log, error)
            /\ UNCHANGED <<m_state, client_nclose, term_closes>>
    /\ session_rv' = "false"
handleError(error) ==
    /\ terminate_from(Session_clientReply(client_log, error), NULL)
    /\ session_rv' = "false"

(***************************************************************************)
(* Session::start and Session::close                                       *)
(***************************************************************************)
\* Fault: the state is set whatever connect() returned.
Session_start_mut(connect_ok) ==
    /\ m_state' = "STARTED"
    /\ session_rv' = IF connect_ok THEN "true" ELSE "false"
    /\ n_connections' = IF connect_ok
                        THEN atomic_add_new(n_connections, 1) ELSE n_connections
    /\ n_current' = IF connect_ok
                    THEN atomic_add_new(n_current, 1) ELSE n_current
Session_start(connect_ok) ==
    IF connect_ok
    THEN /\ m_state' = "STARTED"
         /\ session_rv' = "true"
         /\ n_connections' = atomic_add_new(n_connections, 1)
         /\ n_current' = atomic_add_new(n_current, 1)
    ELSE /\ m_state' = m_state
         /\ session_rv' = "false"
         /\ UNCHANGED <<n_connections, n_current>>

Session_close == m_state' = "STOPPING"

(***************************************************************************)
(* Initial state: MXS_SESSION::MXS_SESSION                                 *)
(***************************************************************************)
SessionInit ==
    /\ m_state = "CREATED"
    /\ refcount = 1
    /\ dcb_set = {}
    /\ freed = 0
    /\ start_called = FALSE
    /\ creation_ref = TRUE
    /\ ext_refs = 0
    /\ tasks = [t \in TaskIds |-> "none"]
    /\ task_puts = [t \in TaskIds |-> 0]
    /\ client_nclose = 0
    /\ client_log = <<>>
    /\ term_closes = 0
    /\ hangup_triggered = FALSE
    /\ handle_errors = 0
    /\ session_rv = "none"
    /\ n_connections = 0
    /\ n_current = 0


Alive == freed = 0

(***************************************************************************)
(* Actions of the session life cycle.                                      *)
(***************************************************************************)
\* session_start is called once, by the client protocol from an event handler
\* of the client DCB, which runs only while that DCB is open.
Start ==
    /\ Alive /\ ~start_called /\ client_nclose = 0
    /\ \E connect_ok \in BOOLEAN : Session_start(connect_ok)
    /\ start_called' = TRUE
    /\ UNCHANGED <<refcount, dcb_set, freed, creation_ref, ext_refs, tasks,
                   task_puts, client_nclose, client_log, term_closes,
                   hangup_triggered>>
    /\ UNCHANGED handle_errors
    /\ UNCHANGED <<holder_vars, query_vars, variable_vars, io_vars>>

TerminateNoError ==
    /\ Alive
    /\ terminate(NULL)
    /\ UNCHANGED <<refcount, dcb_set, freed, n_current, start_called, n_connections, creation_ref, ext_refs,
                   tasks, task_puts, hangup_triggered>>
    /\ UNCHANGED <<handle_errors, session_rv>>
    /\ UNCHANGED <<holder_vars, query_vars, variable_vars, io_vars>>

TerminateError ==
    /\ Alive
    /\ terminate("terminate_error")
    /\ UNCHANGED <<refcount, dcb_set, freed, n_current, start_called, n_connections, creation_ref, ext_refs,
                   tasks, task_puts, hangup_triggered>>
    /\ UNCHANGED <<handle_errors, session_rv>>
    /\ UNCHANGED <<holder_vars, query_vars, variable_vars, io_vars>>

\* A backend or the router reports an error to the session.
HandleError ==
    /\ Alive /\ handle_errors < MaxErrors
    /\ handleError("handle_error")
    /\ handle_errors' = handle_errors + 1
    /\ UNCHANGED <<refcount, dcb_set, freed, n_current, start_called, n_connections, creation_ref, ext_refs,
                   tasks, task_puts, hangup_triggered>>
    /\ UNCHANGED <<holder_vars, query_vars, variable_vars, io_vars>>

LinkBackend ==
    /\ Alive /\ m_state = "STARTED"
    /\ \E dcb \in BackendDCBs \ dcb_set : session_link_backend_dcb(dcb)
    /\ UNCHANGED <<m_state, freed, n_current, start_called, n_connections, creation_ref, ext_refs, tasks,
                   task_puts, client_nclose, client_log, term_closes,
                   hangup_triggered>>
    /\ UNCHANGED <<handle_errors, session_rv>>
    /\ UNCHANGED <<holder_vars, query_vars, variable_vars, io_vars>>

UnlinkBackend ==
    /\ Alive
    /\ \E dcb \in dcb_set : session_unlink_backend_dcb(dcb)
    /\ UNCHANGED <<start_called, n_connections, creation_ref, ext_refs, tasks, task_puts,
                   client_nclose, client_log, term_closes, hangup_triggered>>
    /\ UNCHANGED <<handle_errors, session_rv>>
    /\ UNCHANGED <<holder_vars, query_vars, variable_vars, io_vars>>

GetRef ==
    /\ Alive /\ ext_refs < MaxRefs
    /\ session_get_ref
    /\ ext_refs' = ext_refs + 1
    /\ UNCHANGED <<m_state, dcb_set, freed, n_current, start_called, n_connections, creation_ref, tasks,
                   task_puts, client_nclose, client_log, term_closes,
                   hangup_triggered>>
    /\ UNCHANGED <<handle_errors, session_rv>>
    /\ UNCHANGED <<holder_vars, query_vars, variable_vars, io_vars>>

PutRef ==
    /\ Alive /\ ext_refs > 0
    /\ session_put_ref
    /\ ext_refs' = ext_refs - 1
    /\ UNCHANGED <<dcb_set, start_called, n_connections, creation_ref, tasks, task_puts,
                   client_nclose, client_log, term_closes, hangup_triggered>>
    /\ UNCHANGED <<handle_errors, session_rv>>
    /\ UNCHANGED <<holder_vars, query_vars, variable_vars, io_vars>>

\* The client DCB is closed by one of its event handlers (hangup, error,
\* idle timeout, failed start); closing the client connection closes the
\* session, so that a STARTED session always has an open client DCB.
ClientDcbClose ==
    /\ Alive /\ client_nclose = 0
    /\ DCB_close_client
    /\ Session_close
    /\ UNCHANGED <<refcount, dcb_set, freed, n_current, start_called, n_connections, creation_ref,
                   ext_refs, tasks, task_puts, term_closes, hangup_triggered>>
    /\ UNCHANGED <<handle_errors, session_rv>>
    /\ UNCHANGED <<holder_vars, query_vars, variable_vars, io_vars>>

\* The closed client DCB is destroyed: it releases the session reference
\* taken at construction.
ClientDcbRelease ==
    /\ Alive /\ client_nclose > 0 /\ creation_ref
    /\ session_put_ref
    /\ creation_ref' = FALSE
    /\ UNCHANGED <<dcb_set, start_called, n_connections, ext_refs, tasks, task_puts,
                   client_nclose, client_log, term_closes, hangup_triggered>>
    /\ UNCHANGED <<handle_errors, session_rv>>
    /\ UNCHANGED <<holder_vars, query_vars, variable_vars, io_vars>>

(***************************************************************************)
(* session_delay_routing, DelayedRoutingTask and delayed_routing_cb        *)
(***************************************************************************)
DelayedRoutingTask_ctor(t) ==
    /\ session_get_ref
    /\ tasks' = [tasks EXCEPT ![t] = "pending"]

session_delay_routing(t, bad_alloc) ==
    IF bad_alloc
    THEN UNCHANGED <<refcount, tasks>>
    ELSE DelayedRoutingTask_ctor(t)

\* DelayedRoutingTask::execute: TRUE when the buffer is routed downstream.
\* Fault: the buffer is routed whatever the state of the session.
DelayedRoutingTask_execute_mut == TRUE
DelayedRoutingTask_execute == m_state = "STARTED"

\* ~DelayedRoutingTask
DelayedRoutingTask_dtor(t) ==
    /\ session_put_ref
    /\ task_puts' = [task_puts EXCEPT ![t] = @ + 1]

delayed_routing_cb(action, t, route_ok) ==
    /\ IF action = "EXECUTE" /\ DelayedRoutingTask_execute
       THEN /\ tasks' = [tasks EXCEPT ![t] = "routed"]
            /\ hangup_triggered' = (hangup_triggered \/ ~route_ok)
       ELSE /\ tasks' = [tasks EXCEPT ![t] =
                            IF action = "EXECUTE" THEN "discarded" ELSE "cancelled"]
            /\ hangup_triggered' = hangup_triggered
    /\ DelayedRoutingTask_dtor(t)

DelayRouting ==
    /\ Alive /\ m_state \in {"STARTED", "STOPPING"}
    /\ \E t \in TaskIds, bad_alloc \in BOOLEAN :
          /\ tasks[t] = "none"
          /\ \A u \in TaskIds : u < t => tasks[u] # "none"
          /\ session_delay_routing(t, bad_alloc)
    /\ UNCHANGED <<m_state, dcb_set, freed, n_current, start_called, n_connections, creation_ref, ext_refs,
                   task_puts, client_nclose, client_log, term_closes,
                   hangup_triggered>>
    /\ UNCHANGED <<handle_errors, session_rv>>
    /\ UNCHANGED <<holder_vars, query_vars, variable_vars, io_vars>>

DelayedCallExecute ==
    /\ \E t \in TaskIds, route_ok \in BOOLEAN :
          /\ tasks[t] = "pending"
          /\ delayed_routing_cb("EXECUTE", t, route_ok)
    /\ UNCHANGED <<dcb_set, start_called, n_connections, creation_ref, ext_refs, client_nclose,
                   client_log, term_closes>>
    /\ UNCHANGED <<handle_errors, session_rv>>
    /\ UNCHANGED <<holder_vars, query_vars, variable_vars, io_vars>>

DelayedCallCancel ==
    /\ \E t \in TaskIds :
          /\ tasks[t] = "pending"
          /\ delayed_routing_cb("CANCEL", t, TRUE)
    /\ UNCHANGED <<dcb_set, start_called, n_connections, creation_ref, ext_refs, client_nclose,
                   client_log, term_closes>>
    /\ UNCHANGED <<handle_errors, session_rv>>
    /\ UNCHANGED <<holder_vars, query_vars, variable_vars, io_vars>>

(***************************************************************************)
(* Holders on different threads releasing their references concurrently.   *)
(* session_put_ref is two steps for a thread: the atomic add, and the test *)
(* of the value it returned followed by session_free.                      *)
(***************************************************************************)
HolderInit ==
    /\ holder_refs \in [Holders -> 0..1]
    /\ \E h \in Holders : holder_refs[h] = 1
    /\ shared_refcount = Cardinality({h \in Holders : holder_refs[h] = 1})
    /\ holder_pc = [h \in Holders |-> "idle"]
    /\ holder_old = [h \in Holders |-> 0]
    /\ free_calls = 0

\* Fault: the decrement is a load followed by a separate store.
put_ref_atomic_add_mut(h) ==
    \/ /\ holder_pc[h] = "idle" /\ holder_refs[h] > 0
       /\ holder_old' = [holder_old EXCEPT ![h] = shared_refcount]
       /\ holder_pc' = [holder_pc EXCEPT ![h] = "store"]
       /\ UNCHANGED <<shared_refcount, holder_refs>>
    \/ /\ holder_pc[h] = "store"
       /\ shared_refcount' = holder_old[h] - 1
       /\ holder_refs' = [holder_refs EXCEPT ![h] = @ - 1]
       /\ holder_pc' = [holder_pc EXCEPT ![h] = "test"]
       /\ UNCHANGED holder_old
\* mxb::atomic::add(&session->refcount, -1) as executed by holder h.
put_ref_atomic_add(h) ==
    /\ holder_pc[h] = "idle" /\ holder_refs[h] > 0
    /\ holder_old' = [holder_old EXCEPT ![h] = atomic_add_ret(shared_refcount, -1)]
    /\ shared_refcount' = atomic_add_new(shared_refcount, -1)
    /\ holder_refs' = [holder_refs EXCEPT ![h] = @ - 1]
    /\ holder_pc' = [holder_pc EXCEPT ![h] = "test"]

\* if (... == 1) session_free(session);  The value returned by the add is a
\* temporary of the test and is gone once the test is made.
put_ref_test_free(h) ==
    /\ holder_pc[h] = "test"
    /\ free_calls' = IF holder_old[h] = 1 THEN free_calls + 1 ELSE free_calls
    /\ holder_pc' = [holder_pc EXCEPT ![h] = "idle"]
    /\ holder_old' = [holder_old EXCEPT ![h] = 0]

\* session_get_ref by a holder that owns a reference.
holder_get_ref(h) ==
    /\ holder_pc[h] = "idle" /\ holder_refs[h] > 0 /\ holder_refs[h] < MaxHeld
    /\ shared_refcount' = atomic_add_new(shared_refcount, 1)
    /\ holder_refs' = [holder_refs EXCEPT ![h] = @ + 1]

HolderPutAdd ==
    /\ \E h \in Holders : put_ref_atomic_add(h)
    /\ UNCHANGED free_calls
    /\ UNCHANGED <<session_vars, query_vars, variable_vars, io_vars>>

HolderPutTest ==
    /\ \E h \in Holders : put_ref_test_free(h)
    /\ UNCHANGED <<shared_refcount, holder_refs>>
    /\ UNCHANGED <<session_vars, query_vars, variable_vars, io_vars>>

HolderGetRef ==
    /\ \E h \in Holders : holder_get_ref(h)
    /\ UNCHANGED <<holder_pc, holder_old, free_calls>>
    /\ UNCHANGED <<session_vars, query_vars, variable_vars, io_vars>>

(***************************************************************************)
(* Session variables: Session::add_variable, set_variable_value and        *)
(* remove_variable.  Names are sequences of characters.                    *)
(***************************************************************************)
UpperCase == <<"A", "B", "C", "E", "F", "L", "M", "S", "X">>
LowerCase == <<"a", "b", "c", "e", "f", "l", "m", "s", "x">>

\* tolower and toupper of <ctype.h> on one character.
tolower(c) ==
    IF \E i \in DOMAIN UpperCase : UpperCase[i] = c
    THEN LowerCase[CHOOSE i \in DOMAIN UpperCase : UpperCase[i] = c]
    ELSE c

toupper(c) ==
    IF \E i \in DOMAIN LowerCase : LowerCase[i] = c
    THEN UpperCase[CHOOSE i \in DOMAIN LowerCase : LowerCase[i] = c]
    ELSE c

\* std::transform(key.begin(), key.end(), key.begin(), tolower / toupper)
transform_tolower(name) == [i \in DOMAIN name |-> tolower(name[i])]
transform_toupper(name) == [i \in DOMAIN name |-> toupper(name[i])]

PREFIX == <<"@", "M", "A", "X", "S", "C", "A", "L", "E", ".">>

\* strncasecmp(a, b, n) == 0
strncasecmp_equal(a, b, n) ==
    LET la == IF Len(a) < n THEN Len(a) ELSE n
        lb == IF Len(b) < n THEN Len(b) ELSE n
    IN  /\ la = lb
        /\ \A i \in 1..la : tolower(a[i]) = tolower(b[i])

\* The names the callers use.
VariableNames ==
    { PREFIX \o <<"a">>,                                            \* @MAXSCALE.a
      transform_tolower(PREFIX) \o <<"A">>,                        \* @maxscale.A
      <<"@", "M", "a", "x", "S", "c", "a", "l", "e", ".", "b">>,    \* @MaxScale.b
      PREFIX \o <<"B">>,                                            \* @MAXSCALE.B
      <<"@", "M", "A", "X", "S", "C", "A", "L", "F", ".", "a">>,    \* @MAXSCALF.a
      <<"@", "M", "A", "X">> }                                      \* @MAX

Registrations == {[handler |-> "h1", context |-> "ctx1"],
                  [handler |-> "h2", context |-> "ctx2"]}

\* The key under which each operation looks the name up.
\* Fault: the key keeps the letter case of the name.
add_variable_key_mut(name) == name
add_variable_key(name) == transform_tolower(name)
set_variable_value_key(name) == transform_tolower(name)
remove_variable_key(name) == transform_toupper(name)

\* m_variables.insert(std::make_pair(key, variable))
map_insert(map, key, value) ==
    [k \in DOMAIN map \cup {key} |-> IF k = key THEN value ELSE map[k]]

\* m_variables.erase(it)
map_erase(map, key) == [k \in DOMAIN map \ {key} |-> map[k]]

\* Session::add_variable
add_variable(name, handler, context) ==
    LET key == add_variable_key(name)
    IN  IF strncasecmp_equal(name, PREFIX, Len(PREFIX))
        THEN IF key \notin DOMAIN m_variables
             THEN /\ m_variables' = map_insert(m_variables, key,
                                        [handler |-> handler, context |-> context])
                  /\ ret' = "true"
             ELSE /\ m_variables' = m_variables
                  /\ ret' = "false"
        ELSE /\ m_variables' = m_variables
             /\ ret' = "false"

\* Session::set_variable_value; handler_rv is what the handler returns,
\* malloc_ok whether the message for an unknown variable can be allocated.
set_variable_value(name, handler_rv, malloc_ok) ==
    LET key == set_variable_value_key(name)
    IN  IF key \in DOMAIN m_variables
        THEN /\ handler_calls' = Append(handler_calls,
                     <<m_variables[key].handler, m_variables[key].context, key>>)
             /\ ret' = handler_rv
        ELSE /\ handler_calls' = handler_calls
             /\ ret' = IF malloc_ok THEN "unknown variable" ELSE NULL

\* Session::remove_variable; want_context says whether the caller passes a
\* place for the context.
remove_variable(name, want_context) ==
    LET key == remove_variable_key(name)
    IN  IF key \in DOMAIN m_variables
        THEN /\ ret_context' = IF want_context
                               THEN m_variables[key].context ELSE ret_context
             /\ m_variables' = map_erase(m_variables, key)
             /\ ret' = "true"
        ELSE /\ ret_context' = ret_context
             /\ m_variables' = m_variables
             /\ ret' = "false"

\* What the operation on `name` should find, whatever the letter case.
Stored(name) == transform_tolower(name) \in DOMAIN m_variables
StoredContext(name) ==
    IF Stored(name) THEN m_variables[transform_tolower(name)].context ELSE NULL

VariablesInit ==
    /\ m_variables = <<>>
    /\ last_call = [op |-> "none", name |-> <<>>, stored |-> FALSE,
                    context |-> NULL, arg |-> NULL]
    /\ ret = NULL
    /\ ret_context = NULL
    /\ handler_calls = <<>>

AddVariable ==
    /\ \E name \in VariableNames, r \in Registrations :
          /\ add_variable(name, r.handler, r.context)
          /\ last_call' = [op |-> "add", name |-> name, stored |-> Stored(name),
                           context |-> StoredContext(name), arg |-> r.context]
    /\ UNCHANGED <<ret_context, handler_calls>>
    /\ UNCHANGED <<session_vars, holder_vars, query_vars, io_vars>>

SetVariableValue ==
    /\ Len(handler_calls) < MaxHandlerCalls
    /\ \E name \in VariableNames, handler_rv \in {NULL, "rejected"},
          malloc_ok \in BOOLEAN :
          /\ set_variable_value(name, handler_rv, malloc_ok)
          /\ last_call' = [op |-> "set", name |-> name, stored |-> Stored(name),
                           context |-> StoredContext(name),
                           arg |-> IF malloc_ok THEN "malloc_ok" ELSE "malloc_failed"]
    /\ UNCHANGED <<m_variables, ret_context>>
    /\ UNCHANGED <<session_vars, holder_vars, query_vars, io_vars>>

RemoveVariable ==
    /\ \E name \in VariableNames, want_context \in BOOLEAN :
          /\ remove_variable(name, want_context)
          /\ last_call' = [op |-> "remove", name |-> name, stored |-> Stored(name),
                           context |-> StoredContext(name),
                           arg |-> IF want_context THEN "context" ELSE NULL]
    /\ UNCHANGED handler_calls
    /\ UNCHANGED <<session_vars, holder_vars, query_vars, io_vars>>


HolderParked ==
    /\ holder_refs = [h \in Holders |-> 0]
    /\ shared_refcount = 0
    /\ holder_pc = [h \in Holders |-> "idle"]
    /\ holder_old = [h \in Holders |-> 0]
    /\ free_calls = 0

(***************************************************************************)
(* Query routing: the short-circuit response slot (session_set_response,   *)
(* Session::routeQuery, Session::deliver_response) and the ring of         *)
(* retained statements (retain_statement, book_server_response,            *)
(* book_last_as_complete, reset_server_bookkeeping).                       *)
(*                                                                         *)
(* mxb_assert aborts the process in a debug build and is compiled out of   *)
(* a release build.  An access outside m_last_queries either crashes the   *)
(* process or goes unnoticed, leaving the ring itself unchanged.           *)
(***************************************************************************)
Servers == {"s1", "s2"}
ResponseArgs == {[service |-> "svc1", up |-> "up1", buffer |-> "buf1"],
                 [service |-> "svc2", up |-> "up2", buffer |-> "buf2"]}

book_vars == <<m_last_queries, m_current_query, fault, oob>>

assert_abort ==
    /\ fault' = "assert"
    /\ UNCHANGED <<m_last_queries, m_current_query, oob>>

\* Session::QueryInfo::QueryInfo
QueryInfo_new(stmt) == [stmt |-> stmt, complete |-> FALSE, booked |-> {}]

\* Session::QueryInfo::book_server_response; `answers` is the statement the
\* response belongs to.
QueryInfo_book_server_response(info, server, answers, final_response) ==
    [info EXCEPT !.booked = @ \cup {<<answers, server>>},
                 !.complete = final_response]

QueryInfo_book_as_complete(info) == [info EXCEPT !.complete = TRUE]

QueryInfo_reset_server_bookkeeping(info) ==
    [info EXCEPT !.booked = {}, !.complete = FALSE]

\* Fault: the oldest statement is never dropped.
retain_ring_mut(ring, stmt) == <<QueryInfo_new(stmt)>> \o ring
\* m_last_queries after push_front and the size-limiting pop_back.
retain_ring(ring, stmt) ==
    LET pushed == <<QueryInfo_new(stmt)>> \o ring
    IN  IF Len(pushed) > m_retain_last_statements
        THEN SubSeq(pushed, 1, Len(pushed) - 1)
        ELSE pushed

\* m_current_query after retain_statement.
retain_index(ring, cur) == IF Len(ring) = 1 THEN 0 ELSE cur + 1

\* Session::retain_statement
retain_statement(stmt) ==
    IF m_retain_last_statements = 0
    THEN UNCHANGED book_vars
    ELSE LET ring == retain_ring(m_last_queries, stmt)
             asserts_ok ==
                 /\ Len(m_last_queries) <= m_retain_last_statements
                 /\ IF Len(ring) = 1
                    THEN m_current_query = -1
                    ELSE m_current_query + 1 >= 0
         IN  IF debug /\ ~asserts_ok
             THEN assert_abort
             ELSE /\ m_last_queries' = ring
                  /\ m_current_query' = retain_index(ring, m_current_query)
                  /\ UNCHANGED <<fault, oob>>

\* The element m_last_queries.begin() + m_current_query is accessed although
\* the index is negative.
out_of_bounds_access(crash, next_index) ==
    /\ oob' = TRUE
    /\ m_last_queries' = m_last_queries
    /\ IF crash
       THEN /\ fault' = "crash"
            /\ m_current_query' = m_current_query
       ELSE /\ fault' = fault
            /\ m_current_query' = next_index

\* Session::book_server_response
book_server_response(server, answers, final_response, crash) ==
    IF m_retain_last_statements # 0 /\ m_last_queries # <<>>
    THEN LET in_queue == m_current_query < Len(m_last_queries)
             next_index == IF final_response
                           THEN m_current_query - 1 ELSE m_current_query
             asserts_ok ==
                 /\ m_current_query >= 0
                 /\ in_queue =>
                       /\ ~m_last_queries[m_current_query + 1].complete
                       /\ \A b \in m_last_queries[m_current_query + 1].booked :
                             b[2] # server
                 /\ next_index >= -1
         IN  IF debug /\ ~asserts_ok
             THEN assert_abort
             ELSE IF in_queue /\ m_current_query < 0
             THEN out_of_bounds_access(crash, next_index)
             ELSE /\ m_last_queries' =
                        IF in_queue
                        THEN [m_last_queries EXCEPT ![m_current_query + 1] =
                                 QueryInfo_book_server_response(
                                     @, server, answers, final_response)]
                        ELSE m_last_queries
                  /\ m_current_query' = next_index
                  /\ UNCHANGED <<fault, oob>>
    ELSE UNCHANGED book_vars

\* Session::book_last_as_complete
book_last_as_complete(crash) ==
    IF m_retain_last_statements # 0 /\ m_last_queries # <<>>
    THEN LET in_queue == m_current_query < Len(m_last_queries)
         IN  IF debug /\ ~(m_current_query >= 0)
             THEN assert_abort
             ELSE IF in_queue /\ m_current_query < 0
             THEN out_of_bounds_access(crash, m_current_query)
             ELSE /\ m_last_queries' =
                        IF in_queue
                        THEN [m_last_queries EXCEPT ![m_current_query + 1] =
                                 QueryInfo_book_as_complete(@)]
                        ELSE m_last_queries
                  /\ UNCHANGED <<m_current_query, fault, oob>>
    ELSE UNCHANGED book_vars

\* Session::reset_server_bookkeeping
reset_server_bookkeeping(crash) ==
    IF m_retain_last_statements # 0 /\ m_last_queries # <<>>
    THEN LET in_queue == m_current_query < Len(m_last_queries)
         IN  IF debug /\ ~(m_current_query >= 0)
             THEN assert_abort
             ELSE IF in_queue /\ m_current_query < 0
             THEN out_of_bounds_access(crash, m_current_query)
             ELSE /\ m_last_queries' =
                        IF in_queue
                        THEN [m_last_queries EXCEPT ![m_current_query + 1] =
                                 QueryInfo_reset_server_bookkeeping(@)]
                        ELSE m_last_queries
                  /\ UNCHANGED <<m_current_query, fault, oob>>
    ELSE UNCHANGED book_vars

\* session_set_response
session_set_response(args) ==
    IF debug /\ ~(response.up = NULL /\ response.buffer = NULL)
    THEN /\ fault' = "assert"
         /\ response' = response
    ELSE /\ fault' = fault
         /\ response' = [up |-> args.up, buffer |-> args.buffer,
                         service |-> args.service]

\* Session::deliver_response
deliver_response(crash) ==
    IF response.up # NULL
    THEN /\ up_calls' = Append(up_calls, <<response.up, response.buffer>>)
         /\ response' = [response EXCEPT !.up = NULL, !.buffer = NULL]
         /\ book_last_as_complete(crash)
    ELSE /\ UNCHANGED <<up_calls, response>>
         /\ IF debug /\ response.buffer # NULL
            THEN assert_abort
            ELSE UNCHANGED book_vars

\* Session::routeQuery, after m_down->routeQuery has returned.
Session_routeQuery_return(crash) ==
    IF response.buffer # NULL
    THEN deliver_response(crash)
    ELSE UNCHANGED <<up_calls, response, book_vars>>

QueryInit ==
    /\ debug \in BOOLEAN
    /\ m_retain_last_statements \in 0..MaxRetain
    /\ fault = "none"
    /\ oob = FALSE
    /\ m_last_queries = <<>>
    /\ m_current_query = -1
    /\ response = [up |-> NULL, buffer |-> NULL, service |-> NULL]
    /\ up_calls = <<>>
    /\ route_pc = "idle"
    /\ set_calls = 0
    /\ n_retained = 0
    /\ n_routed = 0
    /\ outstanding = <<>>
    /\ partial = FALSE
    /\ only_stream = TRUE
    /\ short_circuited = {}

QueryParked ==
    /\ debug = FALSE
    /\ m_retain_last_statements = 0
    /\ fault = "none"
    /\ oob = FALSE
    /\ m_last_queries = <<>>
    /\ m_current_query = -1
    /\ response = [up |-> NULL, buffer |-> NULL, service |-> NULL]
    /\ up_calls = <<>>
    /\ route_pc = "idle"
    /\ set_calls = 0
    /\ n_retained = 0
    /\ n_routed = 0
    /\ outstanding = <<>>
    /\ partial = FALSE
    /\ only_stream = TRUE
    /\ short_circuited = {}

Running == fault = "none"

\* The client protocol retains the statement and hands it to
\* Session::routeQuery, which calls m_down->routeQuery.
ClientQuery ==
    /\ Running /\ route_pc = "idle"
    /\ n_retained = n_routed /\ n_retained < MaxStmts
    /\ retain_statement(n_retained + 1)
    /\ n_retained' = n_retained + 1
    /\ route_pc' = "downstream"
    /\ set_calls' = 0
    /\ up_calls' = <<>>
    /\ UNCHANGED <<debug, m_retain_last_statements, response, n_routed,
                   outstanding, partial, only_stream, short_circuited>>
    /\ UNCHANGED <<session_vars, holder_vars, variable_vars, io_vars>>

\* A filter or the router short-circuits the routing.
SetResponse ==
    /\ Running /\ route_pc = "downstream"
    /\ set_calls < MaxSetCalls
    /\ \E args \in ResponseArgs : session_set_response(args)
    /\ set_calls' = set_calls + 1
    /\ only_stream' = FALSE
    /\ UNCHANGED <<debug, oob, m_retain_last_statements, m_last_queries,
                   m_current_query, up_calls, route_pc, n_retained, n_routed,
                   outstanding, partial, short_circuited>>
    /\ UNCHANGED <<session_vars, holder_vars, variable_vars, io_vars>>

\* m_down->routeQuery returns; a statement that was not short-circuited has
\* been sent to a server.
RouteQueryReturn ==
    /\ Running /\ route_pc = "downstream"
    /\ \E crash \in BOOLEAN : Session_routeQuery_return(crash)
    /\ route_pc' = "idle"
    /\ n_routed' = n_routed + 1
    /\ outstanding' = IF response.buffer # NULL
                      THEN outstanding
                      ELSE Append(outstanding, n_routed + 1)
    /\ short_circuited' = IF response.buffer # NULL
                          THEN short_circuited \cup {n_routed + 1}
                          ELSE short_circuited
    /\ UNCHANGED <<debug, m_retain_last_statements, set_calls, n_retained,
                   partial, only_stream>>
    /\ UNCHANGED <<session_vars, holder_vars, variable_vars, io_vars>>

\* The final response to the oldest outstanding statement arrives.
ServerResponseFinal ==
    /\ Running /\ route_pc = "idle"
    /\ outstanding # <<>>
    /\ \E crash \in BOOLEAN :
          book_server_response("s2", Head(outstanding), TRUE, crash)
    /\ outstanding' = Tail(outstanding)
    /\ partial' = FALSE
    /\ UNCHANGED <<debug, m_retain_last_statements, response, up_calls, route_pc,
                   set_calls, n_retained, n_routed, only_stream,
                   short_circuited>>
    /\ UNCHANGED <<session_vars, holder_vars, variable_vars, io_vars>>

\* A non-final response to the oldest outstanding statement arrives.
ServerResponsePartial ==
    /\ Running /\ route_pc = "idle"
    /\ outstanding # <<>> /\ ~partial
    /\ \E crash \in BOOLEAN :
          book_server_response("s1", Head(outstanding), FALSE, crash)
    /\ partial' = TRUE
    /\ only_stream' = FALSE
    /\ UNCHANGED <<debug, m_retain_last_statements, response, up_calls, route_pc,
                   set_calls, n_retained, n_routed, outstanding,
                   short_circuited>>
    /\ UNCHANGED <<session_vars, holder_vars, variable_vars, io_vars>>

\* The router restarts the oldest outstanding statement.
ResetBookkeeping ==
    /\ Running /\ route_pc = "idle"
    /\ outstanding # <<>> /\ partial
    /\ \E crash \in BOOLEAN : reset_server_bookkeeping(crash)
    /\ partial' = FALSE
    /\ only_stream' = FALSE
    /\ UNCHANGED <<debug, m_retain_last_statements, response, up_calls, route_pc,
                   set_calls, n_retained, n_routed, outstanding,
                   short_circuited>>
    /\ UNCHANGED <<session_vars, holder_vars, variable_vars, io_vars>>

(***************************************************************************)
(* The session trace log: Session::append_session_log.                     *)
(***************************************************************************)
LogLines == {"l1", "l2"}

\* m_log.pop_back()
pop_back(q) == SubSeq(q, 1, Len(q) - 1)

\* Session::append_session_log
append_session_log(log) ==
    LET pushed == <<log>> \o m_log
    IN  m_log' = IF Len(pushed) >= session_trace
                 THEN pop_back(pushed)
                 ELSE pushed

LogInit ==
    /\ session_trace \in 0..MaxTrace
    /\ m_log = <<>>
    /\ log_history = <<>>

LogParked ==
    /\ session_trace = 0
    /\ m_log = <<>>
    /\ log_history = <<>>

\* session_append_log
AppendSessionLog ==
    /\ Len(log_history) < MaxLogLines
    /\ \E log \in LogLines :
          /\ append_session_log(log)
          /\ log_history' = <<log>> \o log_history
    /\ UNCHANGED session_trace
    /\ UNCHANGED not_log_vars

(***************************************************************************)
(* The session id generator: session_get_next_id, called by the session    *)
(* constructors running on the workers.  The atomic add is one step of a   *)
(* worker; handing the value to the caller is another.                     *)
(***************************************************************************)
Workers == 1..MaxWorkers

\* Fault: the increment is a load followed by a separate store.
id_atomic_add_mut(w) ==
    \/ /\ id_pc[w] = "idle"
       /\ id_reg' = [id_reg EXCEPT ![w] = next_session_id]
       /\ id_pc' = [id_pc EXCEPT ![w] = "store"]
       /\ UNCHANGED <<next_session_id, issued>>
    \/ /\ id_pc[w] = "store"
       /\ next_session_id' = id_reg[w] + 1
       /\ issued' = Append(issued, id_reg[w])
       /\ id_pc' = [id_pc EXCEPT ![w] = "return"]
       /\ UNCHANGED id_reg
\* mxb::atomic::add(&this_unit.next_session_id, 1, RELAXED) on worker w.
id_atomic_add(w) ==
    /\ id_pc[w] = "idle"
    /\ id_reg' = [id_reg EXCEPT ![w] = atomic_add_ret(next_session_id, 1)]
    /\ next_session_id' = atomic_add_new(next_session_id, 1)
    /\ issued' = Append(issued, atomic_add_ret(next_session_id, 1))
    /\ id_pc' = [id_pc EXCEPT ![w] = "return"]

\* return ...;
session_get_next_id_return(w) ==
    /\ id_pc[w] = "return"
    /\ ids_got' = [ids_got EXCEPT ![w] = Append(@, id_reg[w])]
    /\ id_pc' = [id_pc EXCEPT ![w] = "idle"]

IdInit ==
    /\ next_session_id = 1
    /\ id_pc = [w \in Workers |-> "idle"]
    /\ id_reg = [w \in Workers |-> 0]
    /\ ids_got = [w \in Workers |-> <<>>]
    /\ issued = <<>>

IdParked == IdInit

IdAtomicAdd ==
    /\ next_session_id <= MaxIds
    /\ \E w \in Workers : id_atomic_add(w)
    /\ UNCHANGED ids_got
    /\ UNCHANGED not_id_vars

IdReturn ==
    /\ \E w \in Workers : session_get_next_id_return(w)
    /\ UNCHANGED <<next_session_id, id_reg, issued>>
    /\ UNCHANGED not_id_vars

(***************************************************************************)
(* One DCB: DCB::writeq_append, DCB::writeq_drain, the watermark callbacks *)
(* and DCB::close.  The working state of a call is a record d, stored in   *)
(* the fields of the DCB when the call returns.                            *)
(***************************************************************************)
\* DCB::is_closed
\* Fault: the first close is not counted.
DCB_is_closed_mut(nClose) == nClose > 1
DCB_is_closed(nClose) == nClose # 0

\* The fields of the DCB a call works on; fired, wrote and rv are what the
\* call has fired, written and returned so far.
DcbRecord ==
    [writeq |-> m_writeq, writeqlen |-> m_writeqlen,
     reached |-> m_high_water_reached, n_high |-> n_high_water,
     n_low |-> n_low_water, peer |-> peer, appended |-> appended,
     fired |-> <<>>, wrote |-> 0, rv |-> "none"]

\* DCB::call_callback: the callbacks added for the reason are called.
call_callback(d, reason) == [d EXCEPT !.fired = Append(@, reason)]

\* Fault: the low water mark is tested, the flag is not cleared.
writeq_drain_mut(d, room) ==
    LET n  == IF room < Len(d.writeq) THEN room ELSE Len(d.writeq)
        d1 == [d EXCEPT !.peer = @ \o SubSeq(d.writeq, 1, n),
                        !.writeq = SubSeq(d.writeq, n + 1, Len(d.writeq)),
                        !.wrote = n, !.rv = "written"]
        d2 == IF d1.writeq = <<>> THEN call_callback(d1, "DRAINED") ELSE d1
        d3 == [d2 EXCEPT !.writeqlen = @ - n]
    IN  IF d3.reached /\ d3.writeqlen < m_low_water
        THEN [call_callback(d3, "LOW_WATER") EXCEPT !.n_low = @ + 1]
        ELSE d3
\* DCB::writeq_drain; the socket takes `room` bytes before it would block.
writeq_drain(d, room) ==
    LET n  == IF room < Len(d.writeq) THEN room ELSE Len(d.writeq)
        d1 == [d EXCEPT !.peer = @ \o SubSeq(d.writeq, 1, n),
                        !.writeq = SubSeq(d.writeq, n + 1, Len(d.writeq)),
                        !.wrote = n, !.rv = "written"]
        d2 == IF d1.writeq = <<>> THEN call_callback(d1, "DRAINED") ELSE d1
        d3 == [d2 EXCEPT !.writeqlen = @ - n]
    IN  IF d3.reached /\ d3.writeqlen < m_low_water
        THEN [call_callback(d3, "LOW_WATER") EXCEPT !.reached = FALSE,
                                                    !.n_low = @ + 1]
        ELSE d3

\* Fault: the buffer is put in front of the queue.
writeq_append_mut(d, data, drain, room) ==
    LET d1 == [d EXCEPT !.writeqlen = @ + Len(data),
                        !.writeq = data \o @,
                        !.appended = @ \o data]
        d2 == IF drain THEN writeq_drain(d1, room) ELSE d1
        d3 == IF ~d2.reached /\ d2.writeqlen > m_high_water
              THEN [call_callback(d2, "HIGH_WATER") EXCEPT !.reached = TRUE,
                                                          !.n_high = @ + 1]
              ELSE d2
    IN  [d3 EXCEPT !.rv = "true"]
\* DCB::writeq_append on an open DCB.
writeq_append(d, data, drain, room) ==
    LET d1 == [d EXCEPT !.writeqlen = @ + Len(data),
                        !.writeq = @ \o data,
                        !.appended = @ \o data]
        d2 == IF drain THEN writeq_drain(d1, room) ELSE d1
        d3 == IF ~d2.reached /\ d2.writeqlen > m_high_water
              THEN [call_callback(d2, "HIGH_WATER") EXCEPT !.reached = TRUE,
                                                          !.n_high = @ + 1]
              ELSE d2
    IN  [d3 EXCEPT !.rv = "true"]

\* The fields of the DCB as the call leaves them.
DcbStore(d, op) ==
    /\ m_writeq' = d.writeq
    /\ m_writeqlen' = d.writeqlen
    /\ m_high_water_reached' = d.reached
    /\ n_high_water' = d.n_high
    /\ n_low_water' = d.n_low
    /\ peer' = d.peer
    /\ appended' = d.appended
    /\ dcb_last' = [op |-> op, closed |-> m_nClose # 0,
                    fired |-> d.fired, wrote |-> d.wrote, rv |-> d.rv]

\* A call that finds the DCB closed and does nothing.
DcbRefused(op, rv) ==
    /\ dcb_last' = [op |-> op, closed |-> m_nClose # 0, fired |-> <<>>,
                    wrote |-> 0, rv |-> rv]
    /\ UNCHANGED <<m_writeq, m_writeqlen, m_high_water_reached, n_high_water,
                   n_low_water, peer, appended>>

\* DCB::close
DCB_close ==
    /\ m_nClose' = m_nClose + 1
    /\ IF m_nClose = 0
       THEN /\ polling' = FALSE
            /\ poll_removes' = poll_removes + 1
            /\ m_writeq' = <<>>
            /\ m_writeqlen' = 0
            /\ destroy_calls' = destroy_calls + 1
       ELSE UNCHANGED <<polling, poll_removes, m_writeq, m_writeqlen,
                        destroy_calls>>
    /\ dcb_last' = [op |-> "close", closed |-> m_nClose # 0, fired |-> <<>>,
                    wrote |-> 0, rv |-> "none"]

DcbInit ==
    /\ m_nClose = 0
    /\ m_writeq = <<>>
    /\ m_writeqlen = 0
    /\ m_high_water \in 2..MaxHigh
    /\ m_low_water \in 1..(m_high_water - 1)
    /\ m_high_water_reached = FALSE
    /\ n_high_water = 0
    /\ n_low_water = 0
    /\ polling = TRUE
    /\ peer = <<>>
    /\ appended = <<>>
    /\ poll_removes = 0
    /\ destroy_calls = 0
    /\ dcb_last = [op |-> "none", closed |-> FALSE, fired |-> <<>>,
                   wrote |-> 0, rv |-> "none"]

DcbParked ==
    /\ m_nClose = 0
    /\ m_writeq = <<>>
    /\ m_writeqlen = 0
    /\ m_high_water = 2
    /\ m_low_water = 1
    /\ m_high_water_reached = FALSE
    /\ n_high_water = 0
    /\ n_low_water = 0
    /\ polling = TRUE
    /\ peer = <<>>
    /\ appended = <<>>
    /\ poll_removes = 0
    /\ destroy_calls = 0
    /\ dcb_last = [op |-> "none", closed |-> FALSE, fired |-> <<>>,
                   wrote |-> 0, rv |-> "none"]

\* The bytes of the next buffer: numbered in the order they are handed over.
NextBuffer(n) == [i \in 1..n |-> Len(appended) + i]

\* The protocol or a router writes a buffer.
WriteqAppend ==
    /\ \E n \in 1..MaxBuf, drain \in BOOLEAN, room \in 0..MaxBytes :
          /\ Len(appended) + n <= MaxBytes
          /\ room <= Len(m_writeq) + n
          /\ drain \/ room = 0
          /\ IF DCB_is_closed(m_nClose)
             THEN DcbRefused("append", "false")
             ELSE DcbStore(writeq_append(DcbRecord, NextBuffer(n), drain, room),
                           "append")
    /\ UNCHANGED <<m_nClose, m_high_water, m_low_water, polling, poll_removes,
                   destroy_calls>>
    /\ UNCHANGED not_dcb_vars

\* DCB::process_events: an event the worker holds for the DCB is dispatched.
\* The handler of EPOLLOUT drains the write queue, that of EPOLLIN calls the
\* protocol's read_ready.
process_events(ev, room) ==
    IF DCB_is_closed(m_nClose)
    THEN DcbRefused("event", "suppressed")
    ELSE IF ev = "EPOLLOUT"
         THEN DcbStore([writeq_drain(DcbRecord, room) EXCEPT !.rv = "handled"],
                       "event")
         ELSE DcbStore([DcbRecord EXCEPT !.rv = "handled"], "event")

\* writeq_drain is called by the owner of the DCB.
WriteqDrain ==
    /\ \E room \in 0..MaxBytes :
          /\ room <= Len(m_writeq)
          /\ IF DCB_is_closed(m_nClose)
             THEN DcbRefused("drain", "none")
             ELSE DcbStore(writeq_drain(DcbRecord, room), "drain")
    /\ UNCHANGED <<m_nClose, m_high_water, m_low_water, polling, poll_removes,
                   destroy_calls>>
    /\ UNCHANGED not_dcb_vars

\* The worker dispatches an event it received for the DCB from epoll_wait,
\* possibly before the DCB was closed.
DcbEvent ==
    /\ \E ev \in {"EPOLLIN", "EPOLLOUT"}, room \in 0..MaxBytes :
          /\ room <= Len(m_writeq)
          /\ ev = "EPOLLIN" => room = 0
          /\ process_events(ev, room)
    /\ UNCHANGED <<m_nClose, m_high_water, m_low_water, polling, poll_removes,
                   destroy_calls>>
    /\ UNCHANGED not_dcb_vars

DcbClose ==
    /\ m_nClose < MaxCloses
    /\ DCB_close
    /\ UNCHANGED <<m_high_water, m_low_water, m_high_water_reached,
                   n_high_water, n_low_water, peer, appended>>
    /\ UNCHANGED not_dcb_vars

(***************************************************************************)
(* Triggered events: DCB::trigger_read_event, trigger_write_event and      *)
(* trigger_hangup_event called from inside a handler of the DCB, and the   *)
(* delivery of the triggered event by DCB::event_handler.                  *)
(***************************************************************************)
EpollEvents == {"EPOLLIN", "EPOLLOUT", "EPOLLHUP"}

\* Fault: an event already triggered is kept.
add_event_mut(ev) ==
    m_triggered_event' = IF m_triggered_event = "none" THEN ev
                         ELSE m_triggered_event
\* DCB::add_event, called by the trigger functions.
add_event(ev) == m_triggered_event' = ev

\* DCB::event_handler when the handler invocation has returned: a triggered
\* event is taken and the handler invoked with it, else the worker goes back
\* to epoll_wait.
event_handler_return ==
    IF m_triggered_event # "none"
    THEN /\ ev_current' = m_triggered_event
         /\ m_triggered_event' = "none"
         /\ ev_log' = Append(ev_log, [event |-> m_triggered_event,
                                      synthetic |-> TRUE])
         /\ ev_pc' = "handler"
    ELSE /\ ev_current' = "none"
         /\ ev_pc' = "epoll_wait"
         /\ UNCHANGED <<m_triggered_event, ev_log>>

EvInit ==
    /\ ev_pc = "epoll_wait"
    /\ ev_current = "none"
    /\ m_triggered_event = "none"
    /\ ev_triggers = <<>>
    /\ ev_log = <<>>
    /\ n_epoll = 0
    /\ n_trigger_calls = 0

EvParked == EvInit

\* epoll_wait returns an event for the DCB and its handler is invoked.
EpollDeliver ==
    /\ ev_pc = "epoll_wait" /\ n_epoll < MaxEvents
    /\ \E ev \in EpollEvents :
          /\ ev_current' = ev
          /\ ev_log' = Append(ev_log, [event |-> ev, synthetic |-> FALSE])
    /\ ev_pc' = "handler"
    /\ ev_triggers' = <<>>
    /\ n_epoll' = n_epoll + 1
    /\ UNCHANGED <<m_triggered_event, n_trigger_calls>>
    /\ UNCHANGED not_ev_vars

\* The running handler calls one of the trigger functions.
TriggerEvent ==
    /\ ev_pc = "handler" /\ n_trigger_calls < MaxTriggers
    /\ \E ev \in EpollEvents :
          /\ add_event(ev)
          /\ ev_triggers' = Append(ev_triggers, ev)
    /\ n_trigger_calls' = n_trigger_calls + 1
    /\ UNCHANGED <<ev_pc, ev_current, ev_log, n_epoll>>
    /\ UNCHANGED not_ev_vars

\* The running handler returns.
HandlerReturn ==
    /\ ev_pc = "handler"
    /\ event_handler_return
    /\ ev_triggers' = <<>>
    /\ UNCHANGED <<n_epoll, n_trigger_calls>>
    /\ UNCHANGED not_ev_vars

(***************************************************************************)
(* The listener: Listener::accept_connections and accept_one_dcb on one    *)
(* worker, the protocol's init_connection and the read events of the       *)
(* accepted client DCBs.  A worker runs one handler at a time: while       *)
(* accept_one_dcb works on a connection no other event is dispatched.      *)
(***************************************************************************)
Conns == 1..MaxConns

\* Fault: events are dispatched while accept_one_dcb is at work.
can_dispatch_mut(c) == conn_stage[c] = "polling"
\* The worker may dispatch an event of the client DCB of the connection.
can_dispatch(c) == acc_busy = 0 /\ conn_stage[c] = "polling"

\* Listener::accept_one_dcb up to the creation of the ClientDCB: a remote
\* with too many failed authentications is rejected, the creation of the
\* session or the DCB may fail.
accept_one_dcb(c, outcome) ==
    /\ conn_stage' = [conn_stage EXCEPT ![c] = outcome]
    /\ acc_busy' = IF outcome = "created" THEN c ELSE 0

\* The ClientDCB is added to the epoll set of the worker.
enable_events(c) == conn_stage' = [conn_stage EXCEPT ![c] = "polling"]

\* The protocol's init_connection is called; the DCB is closed when it
\* returns false.
init_connection(c, ok) ==
    /\ init_calls' = [init_calls EXCEPT ![c] = @ + 1]
    /\ init_result' = [init_result EXCEPT ![c] = IF ok THEN "true" ELSE "false"]
    /\ conn_stage' = IF ok THEN conn_stage
                     ELSE [conn_stage EXCEPT ![c] = "closed"]
    /\ acc_busy' = 0

AccInit ==
    /\ conn_stage = [c \in Conns |-> "none"]
    /\ init_calls = [c \in Conns |-> 0]
    /\ init_result = [c \in Conns |-> "none"]
    /\ read_calls = [c \in Conns |-> 0]
    /\ acc_busy = 0

AccParked == AccInit

\* accept() returns a connection.
AcceptOne ==
    /\ acc_busy = 0
    /\ \E c \in Conns, outcome \in {"rejected", "failed", "created"} :
          /\ conn_stage[c] = "none"
          /\ \A b \in Conns : b < c => conn_stage[b] # "none"
          /\ accept_one_dcb(c, outcome)
    /\ UNCHANGED <<init_calls, init_result, read_calls>>
    /\ UNCHANGED not_acc_vars

AcceptEnableEvents ==
    /\ acc_busy # 0 /\ conn_stage[acc_busy] = "created"
    /\ enable_events(acc_busy)
    /\ UNCHANGED <<init_calls, init_result, read_calls, acc_busy>>
    /\ UNCHANGED not_acc_vars

AcceptInitConnection ==
    /\ acc_busy # 0 /\ conn_stage[acc_busy] = "polling"
    /\ \E ok \in BOOLEAN : init_connection(acc_busy, ok)
    /\ UNCHANGED read_calls
    /\ UNCHANGED not_acc_vars

\* A read event of a client DCB is dispatched: read_ready is called.
ClientReadReady ==
    /\ \E c \in Conns :
          /\ can_dispatch(c)
          /\ read_calls[c] < MaxReads
          /\ read_calls' = [read_calls EXCEPT ![c] = @ + 1]
    /\ UNCHANGED <<conn_stage, init_calls, init_result, acc_busy>>
    /\ UNCHANGED not_acc_vars

\* A hangup of a client DCB is dispatched: the DCB is closed.
ClientHangup ==
    /\ \E c \in Conns :
          /\ can_dispatch(c)
          /\ conn_stage' = [conn_stage EXCEPT ![c] = "closed"]
    /\ UNCHANGED <<init_calls, init_result, read_calls, acc_busy>>
    /\ UNCHANGED not_acc_vars

(***************************************************************************)
(* The life cycle of one listener on a worker (listen, stop, start,        *)
(* destroy), the connections it accepts and the limit on failed            *)
(* authentications per remote host.                                        *)
(***************************************************************************)
\* The number of failed authentications after which a remote is rejected.
AuthFailLimit == 10

Remotes == {"203.0.113.7", "198.51.100.2"}

\* The descriptor socket()/bind() returns for the listener's address.
ListenFd == 3

\* Fault: one remote over the limit blocks every remote.
is_blocked_mut(failures, remote) ==
    \E r \in Remotes : failures[r] >= AuthFailLimit
\* The per-remote check made for every accepted descriptor.
is_blocked(failures, remote) == failures[remote] >= AuthFailLimit

\* Listener::mark_auth_as_failed(remote)
mark_auth_as_failed(remote) ==
    auth_failures' = [auth_failures EXCEPT ![remote] = @ + 1]

\* The counter of a remote decays with time, never below zero.
auth_decay(remote) ==
    auth_failures' = [auth_failures EXCEPT ![remote] = IF @ > 0 THEN @ - 1 ELSE 0]

\* Listener::reject_connection(fd, host): the protocol writes its deny
\* message and the descriptor is closed.
reject_connection(remote) ==
    /\ l_conns' = Append(l_conns, [remote |-> remote, rejected |-> TRUE,
                                   dcb |-> FALSE, init_calls |-> 0,
                                   open |-> FALSE, starts |-> n_starts])
    /\ reject_calls' = reject_calls + 1

\* Listener::accept_one_dcb followed by the protocol's init_connection: the
\* ClientDCB is created and registered, and closed again when
\* init_connection returns false.
accept_client(remote, init_ok) ==
    /\ l_conns' = Append(l_conns, [remote |-> remote, rejected |-> FALSE,
                                   dcb |-> TRUE, init_calls |-> 1,
                                   open |-> init_ok, starts |-> n_starts])
    /\ UNCHANGED reject_calls

\* One round of the accept loop of Listener::accept_connections.
accept_connections(remote, init_ok) ==
    IF is_blocked(auth_failures, remote)
    THEN reject_connection(remote)
    ELSE accept_client(remote, init_ok)

\* Listener::listen(): the descriptor is created, bound and added to the
\* readiness set of the worker.
Listener_listen(ok) ==
    IF ok
    THEN /\ l_fd' = ListenFd
         /\ l_polling' = TRUE
         /\ l_state' = "STARTED"
    ELSE /\ l_state' = "FAILED"
         /\ UNCHANGED <<l_fd, l_polling>>

\* Fault: stop closes the listening descriptor.
Listener_stop_mut ==
    /\ l_polling' = FALSE
    /\ fds_closed' = fds_closed \cup {l_fd}
    /\ l_fd' = -1
    /\ l_state' = "STOPPED"
\* Listener::stop(): the descriptor is removed from the readiness set and
\* stays open.
Listener_stop ==
    /\ l_polling' = FALSE
    /\ l_state' = "STOPPED"
    /\ UNCHANGED <<l_fd, fds_closed>>

\* Listener::start(): the descriptor is added to the readiness set again.
Listener_start ==
    /\ l_polling' = TRUE
    /\ l_state' = "STARTED"
    /\ UNCHANGED <<l_fd, fds_closed>>

\* Listener::destroy(): the descriptor is closed; accepted clients live on.
Listener_destroy ==
    /\ l_polling' = FALSE
    /\ fds_closed' = IF l_fd = -1 THEN fds_closed ELSE fds_closed \cup {l_fd}
    /\ l_fd' = -1
    /\ l_state' = "DESTROYED"

LsnInit ==
    /\ l_state = "CREATED"
    /\ l_fd = -1
    /\ l_polling = FALSE
    /\ fds_closed = {}
    /\ auth_failures = [r \in Remotes |-> 0]
    /\ l_conns = <<>>
    /\ reject_calls = 0
    /\ n_starts = 0

LsnParked == LsnInit

ListenerListen ==
    /\ l_state = "CREATED"
    /\ \E ok \in BOOLEAN : Listener_listen(ok)
    /\ UNCHANGED <<fds_closed, auth_failures, l_conns, reject_calls, n_starts>>
    /\ UNCHANGED not_lsn_vars

ListenerStop ==
    /\ l_state = "STARTED"
    /\ Listener_stop
    /\ UNCHANGED <<auth_failures, l_conns, reject_calls, n_starts>>
    /\ UNCHANGED not_lsn_vars

ListenerStart ==
    /\ l_state = "STOPPED" /\ n_starts < MaxStarts
    /\ Listener_start
    /\ n_starts' = n_starts + 1
    /\ UNCHANGED <<auth_failures, l_conns, reject_calls>>
    /\ UNCHANGED not_lsn_vars

ListenerDestroy ==
    /\ l_state \in {"CREATED", "STARTED", "STOPPED", "FAILED"}
    /\ Listener_destroy
    /\ UNCHANGED <<auth_failures, l_conns, reject_calls, n_starts>>
    /\ UNCHANGED not_lsn_vars

\* The listening descriptor is readable and accept() returns a connection.
ListenerAccept ==
    /\ l_polling /\ l_fd # -1 /\ l_fd \notin fds_closed
    /\ Len(l_conns) < MaxAccepts
    /\ \E remote \in Remotes, init_ok \in BOOLEAN :
          accept_connections(remote, init_ok)
    /\ UNCHANGED <<l_state, l_fd, l_polling, fds_closed, auth_failures, n_starts>>
    /\ UNCHANGED not_lsn_vars

\* The protocol of a client reports a failed authentication of a remote.
MarkAuthAsFailed ==
    /\ \E remote \in Remotes :
          /\ auth_failures[remote] <= AuthFailLimit
          /\ mark_auth_as_failed(remote)
    /\ UNCHANGED <<l_state, l_fd, l_polling, fds_closed, l_conns, reject_calls,
                   n_starts>>
    /\ UNCHANGED not_lsn_vars

\* Time passes and the counter of a remote decays.
AuthDecay ==
    /\ \E remote \in Remotes :
          /\ auth_failures[remote] > 0
          /\ auth_decay(remote)
    /\ UNCHANGED <<l_state, l_fd, l_polling, fds_closed, l_conns, reject_calls,
                   n_starts>>
    /\ UNCHANGED not_lsn_vars

\* The client DCB of an accepted connection is closed by its session.
ClientDcbClosed ==
    /\ \E i \in DOMAIN l_conns :
          /\ l_conns[i].open
          /\ l_conns' = [l_conns EXCEPT ![i].open = FALSE]
    /\ UNCHANGED <<l_state, l_fd, l_polling, fds_closed, auth_failures,
                   reject_calls, n_starts>>
    /\ UNCHANGED not_lsn_vars

(***************************************************************************)
(* AvroSession::notify_all_clients: a task broadcast to the routing        *)
(* workers, each with its thread_local list client_sessions, and the       *)
(* client callbacks the task queues on the worker it runs on.              *)
(***************************************************************************)
AvroIds == 1..MaxAvro

Services == {"svcA", "svcB"}

\* thread_local std::vector<AvroSession*> client_sessions, as the thread
\* of worker w sees it.
thread_local_client_sessions(w) == client_sessions[w]

SelectMatching(list, service) ==
    SelectSeq(list, LAMBDA a : av_service[a] = service)

\* Fault: the task queues a callback for every session in the list.
notify_task_sessions_mut(w, service) == thread_local_client_sessions(w)
\* The sessions the broadcast task picks on worker w:
\*   for (auto a : client_sessions) if (a->router->service == service)
notify_task_sessions(w, service) ==
    SelectMatching(thread_local_client_sessions(w), service)

\* AvroSession::queue_client_callback for each session of the list, called
\* on worker w: RoutingWorker::get_current()->execute(..., EXECUTE_QUEUED).
queue_client_callbacks(posted, w, list) ==
    posted \o [i \in 1..Len(list) |-> [kind |-> "callback", session |-> list[i],
                                       service |-> "none"]]

\* The body of the broadcast task, run on worker w with w's queue posted.
notify_task(posted, w, service) ==
    queue_client_callbacks(posted, w, notify_task_sessions(w, service))

CountQueued(list, a) == Len(SelectSeq(list, LAMBDA b : b = a))

\* What a run of the task on worker w records.
TaskRan(w, service) ==
    /\ bc_runs' = [bc_runs EXCEPT ![w] = @ + 1]
    /\ bc_last' = [worker |-> w, service |-> service]
    /\ cb_queued' = [a \in AvroIds |->
                       CountQueued(notify_task_sessions(w, service), a)]
    /\ foreign_touch' = (foreign_touch \/
                            \E i \in DOMAIN notify_task_sessions(w, service) :
                               av_owner[notify_task_sessions(w, service)[i]] # w)

\* RoutingWorker::broadcast(task, EXECUTE_AUTO) called on worker caller, or
\* on a thread that is no worker (caller = 0): the task is posted to every
\* worker, and runs at once on the calling worker.
broadcast(caller, service) ==
    w_posted' = [w \in Workers |->
                   IF w = caller
                   THEN notify_task(w_posted[w], w, service)
                   ELSE Append(w_posted[w], [kind |-> "notify", session |-> 0,
                                             service |-> service])]

BcInit ==
    /\ client_sessions = [w \in Workers |-> <<>>]
    /\ av_service = [a \in AvroIds |-> "none"]
    /\ av_owner = [a \in AvroIds |-> 0]
    /\ w_posted = [w \in Workers |-> <<>>]
    /\ bc_runs = [w \in Workers |-> 0]
    /\ bc_last = [worker |-> 0, service |-> "none"]
    /\ cb_queued = [a \in AvroIds |-> 0]
    /\ foreign_touch = FALSE
    /\ n_broadcasts = 0

BcParked == BcInit

\* AvroSession::AvroSession on worker w for a router of the service.  Workers
\* are alike and so are services: the first session is put on the first
\* worker and the first service.
AvroSessionCreate ==
    /\ \E a \in AvroIds, w \in Workers, service \in Services :
          /\ av_owner[a] = 0
          /\ \A b \in AvroIds : b < a => av_owner[b] # 0
          /\ a = 1 => w = 1 /\ service = "svcA"
          /\ client_sessions' = [client_sessions EXCEPT ![w] = Append(@, a)]
          /\ av_service' = [av_service EXCEPT ![a] = service]
          /\ av_owner' = [av_owner EXCEPT ![a] = w]
    /\ UNCHANGED <<w_posted, bc_runs, bc_last, cb_queued, foreign_touch,
                   n_broadcasts>>
    /\ UNCHANGED not_bc_vars

\* AvroSession::~AvroSession on the worker of the session.
AvroSessionDestroy ==
    /\ \E w \in Workers, i \in 1..MaxAvro :
          /\ i \in DOMAIN client_sessions[w]
          /\ client_sessions' =
                [client_sessions EXCEPT
                    ![w] = SubSeq(@, 1, i - 1) \o SubSeq(@, i + 1, Len(@))]
    /\ UNCHANGED <<av_service, av_owner, w_posted, bc_runs, bc_last, cb_queued,
                   foreign_touch, n_broadcasts>>
    /\ UNCHANGED not_bc_vars

\* AvroSession::notify_all_clients(service)
NotifyAllClients ==
    /\ n_broadcasts < MaxBroadcasts
    /\ \E caller \in Workers \cup {0}, service \in Services :
          /\ broadcast(caller, service)
          /\ IF caller = 0
             THEN UNCHANGED <<bc_runs, bc_last, cb_queued, foreign_touch>>
             ELSE TaskRan(caller, service)
    /\ n_broadcasts' = n_broadcasts + 1
    /\ UNCHANGED <<client_sessions, av_service, av_owner>>
    /\ UNCHANGED not_bc_vars

\* A worker runs the posted task at the head of its queue: the broadcast
\* task.
WorkerRunNotify ==
    /\ \E w \in Workers :
          /\ w_posted[w] # <<>> /\ Head(w_posted[w]).kind = "notify"
          /\ w_posted' = [w_posted EXCEPT
                             ![w] = notify_task(Tail(@), w, Head(@).service)]
          /\ TaskRan(w, Head(w_posted[w]).service)
    /\ UNCHANGED <<client_sessions, av_service, av_owner, n_broadcasts>>
    /\ UNCHANGED not_bc_vars

\* A worker runs the posted task at the head of its queue: a queued client
\* callback.
WorkerRunCallback ==
    /\ \E w \in Workers :
          /\ w_posted[w] # <<>> /\ Head(w_posted[w]).kind = "callback"
          /\ w_posted' = [w_posted EXCEPT ![w] = Tail(@)]
    /\ UNCHANGED <<client_sessions, av_service, av_owner, bc_runs, bc_last,
                   cb_queued, foreign_touch, n_broadcasts>>
    /\ UNCHANGED not_bc_vars

(***************************************************************************)
(* Worker affinity of one session: the owner of its client DCB, the        *)
(* backend DCBs created on the workers and linked to the session, and the  *)
(* delayed routing tasks.  Object 0 is the client DCB, "session" the       *)
(* session; every change of a field is recorded as <<kind, DCB, worker>>.   *)
(***************************************************************************)
ClientDcb == 0

\* The workers on which a handler of one of the session's DCBs can run.
SessionWorkers ==
    {aff_owner[ClientDcb]} \cup {aff_owner[d] : d \in aff_linked}

\* A DCB is created by the worker that runs the creating handler and is
\* owned by it.
dcb_create(d, current) ==
    /\ aff_owner' = [aff_owner EXCEPT ![d] = current]
    /\ aff_mutations' = aff_mutations \cup {<<"dcb", d, current>>}

\* mxb_assert(dcb->owner == session->client_connection()->dcb()->owner)
link_owner_assert(d) == aff_owner[d] = aff_owner[ClientDcb]

\* session_link_backend_dcb(session, dcb) called on worker current: a debug
\* build stops at a failed assertion, a release build links the DCB.
aff_session_link_backend_dcb(d, current) ==
    IF aff_debug /\ ~link_owner_assert(d)
    THEN /\ aff_fault' = "assert"
         /\ UNCHANGED <<aff_linked, aff_mutations>>
    ELSE /\ aff_linked' = aff_linked \cup {d}
         /\ aff_mutations' = aff_mutations \cup {<<"dcb", d, current>>,
                                                 <<"session", 0, current>>}
         /\ UNCHANGED aff_fault

\* session_unlink_backend_dcb(session, dcb) called on worker current.
aff_session_unlink_backend_dcb(d, current) ==
    /\ aff_linked' = aff_linked \ {d}
    /\ aff_mutations' = aff_mutations \cup {<<"session", 0, current>>}

\* Fault: the delayed call is always registered on the first worker.
delay_routing_worker_mut(current) == 1
\* Worker* worker = Worker::get_current();
delay_routing_worker(current) == current

\* mxb_assert(worker == session->client_connection()->dcb()->owner)
delay_owner_assert(worker) == worker = aff_owner[ClientDcb]

\* session_delay_routing called on worker current: the task takes a session
\* reference and worker->delayed_call registers it on that worker.
aff_session_delay_routing(t, current) ==
    LET worker == delay_routing_worker(current) IN
    IF aff_debug /\ ~delay_owner_assert(worker)
    THEN /\ aff_fault' = "assert"
         /\ UNCHANGED <<aff_tasks, aff_mutations>>
    ELSE /\ aff_tasks' = [aff_tasks EXCEPT ![t] = [worker |-> worker, state |-> "pending"]]
         /\ aff_mutations' = aff_mutations \cup {<<"session", 0, current>>}
         /\ UNCHANGED aff_fault

\* delayed_routing_cb on the worker the call was registered on: the task
\* routes the buffer, may trigger a hangup on the client DCB, and drops its
\* session reference.
aff_delayed_routing_cb(t) ==
    /\ aff_tasks' = [aff_tasks EXCEPT ![t].state = "done"]
    /\ aff_mutations' = aff_mutations \cup {<<"session", 0, aff_tasks[t].worker>>,
                                            <<"dcb", ClientDcb, aff_tasks[t].worker>>}

AffInit ==
    /\ aff_debug \in BOOLEAN
    /\ aff_fault = "none"
    /\ \E w \in Workers :
          /\ aff_owner = [d \in {ClientDcb} \cup BackendDCBs |->
                             IF d = ClientDcb THEN w ELSE 0]
          /\ aff_mutations = {<<"dcb", ClientDcb, w>>, <<"session", 0, w>>}
    /\ aff_linked = {}
    /\ aff_tasks = [t \in TaskIds |-> [worker |-> 0, state |-> "none"]]

AffParked ==
    /\ aff_debug = FALSE
    /\ aff_fault = "none"
    /\ aff_owner = [d \in {ClientDcb} \cup BackendDCBs |-> IF d = ClientDcb THEN 1 ELSE 0]
    /\ aff_mutations = {<<"dcb", ClientDcb, 1>>, <<"session", 0, 1>>}
    /\ aff_linked = {}
    /\ aff_tasks = [t \in TaskIds |-> [worker |-> 0, state |-> "none"]]

\* A handler running on some worker creates a backend DCB.
AffCreateBackend ==
    /\ aff_fault = "none"
    /\ \E d \in BackendDCBs, current \in Workers :
          /\ aff_owner[d] = 0
          /\ dcb_create(d, current)
    /\ UNCHANGED <<aff_debug, aff_fault, aff_linked, aff_tasks>>
    /\ UNCHANGED not_aff_vars

\* A handler of one of the session's DCBs links a backend DCB of its
\* worker to the session.
AffLinkBackend ==
    /\ aff_fault = "none"
    /\ \E current \in SessionWorkers, d \in BackendDCBs \ aff_linked :
          /\ aff_owner[d] = current
          /\ aff_session_link_backend_dcb(d, current)
    /\ UNCHANGED <<aff_debug, aff_owner, aff_tasks>>
    /\ UNCHANGED not_aff_vars

\* The handler of a linked backend DCB unlinks it.
AffUnlinkBackend ==
    /\ aff_fault = "none"
    /\ \E d \in aff_linked : aff_session_unlink_backend_dcb(d, aff_owner[d])
    /\ UNCHANGED <<aff_debug, aff_fault, aff_owner, aff_tasks>>
    /\ UNCHANGED not_aff_vars

\* A router called from a handler of one of the session's DCBs delays the
\* routing of a buffer.
AffDelayRouting ==
    /\ aff_fault = "none"
    /\ \E current \in SessionWorkers, t \in TaskIds :
          /\ aff_tasks[t].state = "none"
          /\ \A u \in TaskIds : u < t => aff_tasks[u].state # "none"
          /\ aff_session_delay_routing(t, current)
    /\ UNCHANGED <<aff_debug, aff_owner, aff_linked>>
    /\ UNCHANGED not_aff_vars

\* The delayed call of a task comes due on its worker.
AffDelayedCall ==
    /\ aff_fault = "none"
    /\ \E t \in TaskIds :
          /\ aff_tasks[t].state = "pending"
          /\ aff_delayed_routing_cb(t)
    /\ UNCHANGED <<aff_debug, aff_fault, aff_owner, aff_linked>>
    /\ UNCHANGED not_aff_vars

(***************************************************************************)
(* The smart router session (smartsession.cc): the clusters with their     *)
(* packet trackers, the mode, the held last packet, the buffers written to *)
(* the backends and the packets forwarded to the client.  A response       *)
(* packet is [from, n, kind]: the n-th packet of cluster from for the      *)
(* query being answered.                                                   *)
(***************************************************************************)
Targets == <<"t1", "t2", "t3">>

TargetSet == {Targets[i] : i \in DOMAIN Targets}

RequestKinds == {"single", "noresp", "split_leader"}

ResponseKinds == {"data", "last", "err_other", "err_killed", "bad"}

\* maxsql::PacketTracker(pBuf): the tracker of a new request.
PacketTracker(kind) ==
    [state |-> IF kind = "noresp" THEN "Done" ELSE "FirstPacket",
     split |-> (kind = "split_leader")]

\* PacketTracker::update_request with a continuation packet of a split
\* request; the trailer ends the request.
update_request(tracker, kind) ==
    [tracker EXCEPT !.split = (kind # "split_trailer")]

\* PacketTracker::update_response
update_response(tracker, kind) ==
    IF tracker.split \/ tracker.state \notin {"FirstPacket", "Rows"}
    THEN [tracker EXCEPT !.state = "Error"]
    ELSE [tracker EXCEPT !.state =
             CASE kind = "data" -> "Rows"
               [] kind = "last" -> "Done"
               [] kind \in {"err_other", "err_killed"} -> "ErrorPacket"
               [] OTHER -> "Error"]

tracker_expecting_request_packets(tracker) == tracker.split

tracker_expecting_response_packets(tracker) ==
    tracker.state \notin {"Done", "ErrorPacket", "Error"}

tracker_expecting_more_packets(tracker) ==
    tracker.split \/ tracker_expecting_response_packets(tracker)

\* SmartRouterSession::expecting_request_packets, expecting_response_packets
\* and all_clusters_are_idle over a vector of clusters.
expecting_request_packets(clusters) ==
    \E i \in DOMAIN clusters : tracker_expecting_request_packets(clusters[i].tracker)

expecting_response_packets(clusters) ==
    \E i \in DOMAIN clusters : tracker_expecting_response_packets(clusters[i].tracker)

\* Fault: a cluster counts as idle as soon as its request is complete.
all_clusters_are_idle_mut(clusters) ==
    \A i \in DOMAIN clusters : ~tracker_expecting_request_packets(clusters[i].tracker)
all_clusters_are_idle(clusters) ==
    \A i \in DOMAIN clusters : ~tracker_expecting_more_packets(clusters[i].tracker)

\* The endpoints whose connect() succeeded, in the order of pEndpoints, each
\* flagged is_master when its target is the configured master.
RECURSIVE connected_clusters(_, _)
connected_clusters(endpoints, master) ==
    IF endpoints = <<>> THEN <<>>
    ELSE LET e == Head(endpoints)
             rest == connected_clusters(Tail(endpoints), master)
         IN IF e.connect_ok
            THEN <<[target |-> e.target, is_master |-> (e.target = master),
                    is_replying_to_client |-> FALSE,
                    tracker |-> [state |-> "Done", split |-> FALSE]]>> \o rest
            ELSE rest

\* The position of the master among the clusters, -1 if it is not there
\* (positions count from 0 as in the code).
master_position(clusters) ==
    IF \E i \in DOMAIN clusters : clusters[i].is_master
    THEN (CHOOSE i \in DOMAIN clusters :
             /\ clusters[i].is_master
             /\ \A j \in DOMAIN clusters : clusters[j].is_master => j <= i) - 1
    ELSE -1

swap(clusters, i, j) ==
    [clusters EXCEPT ![i] = clusters[j], ![j] = clusters[i]]

\* Fault: the master is left where the endpoints put it.
create_clusters_mut(endpoints, master) == connected_clusters(endpoints, master)
\* SmartRouterSession::create: the clusters of the new session, the master
\* swapped to the front; <<>> stands for no session (nullptr).
create_clusters(endpoints, master) ==
    LET clusters == connected_clusters(endpoints, master)
        master_pos == master_position(clusters)
    IN IF master_pos # -1
       THEN IF master_pos > 0 THEN swap(clusters, 1, master_pos + 1) ELSE clusters
       ELSE <<>>

\* The clusters a write addresses: all of them, the first one, or the one
\* of a target.
ClusterOf(clusters, target) ==
    CHOOSE i \in DOMAIN clusters : clusters[i].target = target

\* The tracker and flag of the addressed clusters are reset for the request.
written(clusters, addressed, kind) ==
    [i \in DOMAIN clusters |->
        IF i \in addressed
        THEN [clusters[i] EXCEPT !.tracker = PacketTracker(kind),
                                 !.is_replying_to_client = FALSE]
        ELSE clusters[i]]

\* The record of a call: what it returned, the cluster and kind of the
\* response packet it was given, the targets whose backend it wrote to, and
\* whether it forwarded a packet or terminated the session.
call(op, via, rv, cluster, packet, targets, fwd, term) ==
    [op |-> op, via |-> via, ret |-> rv, cluster |-> cluster, packet |-> packet,
     written |-> targets, forwarded |-> fwd, terminated |-> term]

targets_of(clusters, addressed) == {clusters[i].target : i \in addressed}

\* What a write of a new request leaves in the session; set_mode tells
\* whether the write found a response to be expected.
write_to(route, addressed, kind, mode, set_mode, ok) ==
    /\ m_clusters' = written(m_clusters, addressed, kind)
    /\ sm_route' = route
    /\ m_mode' = IF set_mode THEN mode ELSE m_mode
    /\ sm_last' = call("routeQuery", route, ok, 0, "none", targets_of(m_clusters, addressed),
                       FALSE, FALSE)
    /\ sm_client' = <<>>
    /\ sm_nrecv' = [t \in TargetSet |-> 0]
    /\ sm_winner' = "none"
    /\ UNCHANGED <<m_pDelayed_packet, sm_terminated>>

\* SmartRouterSession::write_to_all
write_to_all(kind, mode, ok) ==
    /\ write_to(IF mode = "Query" THEN "all" ELSE "measure", DOMAIN m_clusters,
                kind, mode,
                expecting_response_packets(written(m_clusters, DOMAIN m_clusters, kind)),
                ok)
    /\ UNCHANGED sm_fault

\* SmartRouterSession::write_to_master: the cluster at index 0 of the code,
\* with mxb_assert(cluster.is_master).
write_to_master(kind, ok) ==
    /\ write_to("master", {1}, kind, "Query",
                tracker_expecting_response_packets(PacketTracker(kind)), ok)
    /\ sm_fault' = IF sm_debug /\ ~m_clusters[1].is_master
                    THEN "assert_master" ELSE sm_fault

\* SmartRouterSession::write_to_target
write_to_target(target, kind, ok) ==
    /\ write_to("target", {ClusterOf(m_clusters, target)}, kind, "Query",
                tracker_expecting_response_packets(PacketTracker(kind)), ok)
    /\ UNCHANGED sm_fault

\* SmartRouterSession::write_split_packets: the clusters expecting request
\* packets get the continuation, up to the first backend that fails
\* (fail_at, 0 when none does).
write_split_packets(kind, fail_at) ==
    LET expecting == {i \in DOMAIN m_clusters :
                         tracker_expecting_request_packets(m_clusters[i].tracker)}
        reached == {i \in expecting : fail_at = 0 \/ i <= fail_at}
        after == [i \in DOMAIN m_clusters |->
                    IF i \in reached
                    THEN [m_clusters[i] EXCEPT
                             !.tracker = update_request(m_clusters[i].tracker, kind)]
                    ELSE m_clusters[i]]
    IN  /\ m_clusters' = after
        /\ m_mode' = IF all_clusters_are_idle(after) THEN "Idle" ELSE m_mode
        /\ sm_last' = call("routeQuery", "split", fail_at \notin expecting, 0, "none",
                           targets_of(m_clusters, reached), FALSE, FALSE)
        /\ UNCHANGED <<m_pDelayed_packet, sm_client, sm_nrecv, sm_winner,
                       sm_terminated, sm_fault, sm_route>>

\* Fault: a query that arrives while responses are collected is written to
\* the master.
routeQuery_busy_mut == write_to_master("single", TRUE)
\* SmartRouterSession::routeQuery in a mode other than Idle with no cluster
\* expecting request packets: mxb_assert(false), and false is returned.
routeQuery_busy ==
    /\ sm_fault' = IF sm_debug THEN "assert_busy" ELSE sm_fault
    /\ sm_last' = call("routeQuery", "busy", FALSE, 0, "none", {}, FALSE, FALSE)
    /\ UNCHANGED <<m_clusters, m_mode, m_pDelayed_packet, sm_client, sm_nrecv,
                   sm_winner, sm_terminated, sm_route>>

\* SmartRouterSession::routeQuery.  route is what the query classifier and
\* the performance table decide for a new query.
routeQuery(kind, route, target, ok, fail_at) ==
    IF expecting_request_packets(m_clusters)
    THEN write_split_packets(kind, fail_at)
    ELSE IF m_mode # "Idle"
    THEN routeQuery_busy
    ELSE CASE route = "all" -> write_to_all(kind, "Query", ok)
           [] route = "master" -> write_to_master(kind, ok)
           [] route = "target" -> write_to_target(target, kind, ok)
           [] OTHER -> write_to_all(kind, "MeasureQuery", ok)

\* m_pClient_dcb->session()->terminate(...) made by the router session.
sm_terminate(how, i, kind) ==
    /\ sm_terminated' = how
    /\ sm_last' = call(IF how = "error" THEN "handleError" ELSE "clientReply", "none",
                       FALSE, i, kind, {}, FALSE, TRUE)

\* RouterSession::clientReply(pPacket, ...): the packet goes to the client.
forward(packet) == sm_client' = Append(sm_client, packet)

\* Fault: the last packet of the replying cluster is forwarded at once.
delay_last_packet_mut(last_packet_for_this_cluster) == FALSE
\* The last packet of the replying cluster is held back while another
\* cluster still expects response packets.
delay_last_packet(last_packet_for_this_cluster) == last_packet_for_this_cluster

\* Fault: every cluster that answers is flagged and its packets forwarded.
is_first_response_packet_mut(mode) == TRUE
\* bool first_response_packet = (m_mode == Query || m_mode == MeasureQuery)
is_first_response_packet(mode) == mode \in {"Query", "MeasureQuery"}

\* Fault: a tracker in the Error state is not looked at.
reply_terminates_mut(tracker, kind) == FALSE
\* The two tests at the head of clientReply that end the session.
reply_terminates(tracker, kind) ==
    \/ tracker.state = "ErrorPacket" /\ kind = "err_killed"
    \/ tracker.state = "Error"

\* SmartRouterSession::clientReply for a packet of the cluster at i.
clientReply(i, kind) ==
    LET packet == [from |-> m_clusters[i].target,
                   n |-> sm_nrecv[m_clusters[i].target] + 1, kind |-> kind]
        tracker == update_response(m_clusters[i].tracker, kind)
        updated == [m_clusters EXCEPT ![i].tracker = tracker]
        first_response_packet == is_first_response_packet(m_mode)
        last_packet_for_this_cluster == ~tracker_expecting_response_packets(tracker)
        very_last_response_packet == ~expecting_response_packets(updated)
        flagged == IF first_response_packet
                   THEN [updated EXCEPT ![i].is_replying_to_client = TRUE]
                   ELSE updated
        replying == flagged[i].is_replying_to_client
        held == m_pDelayed_packet # <<>>
    IN
    /\ sm_nrecv' = [sm_nrecv EXCEPT ![m_clusters[i].target] = @ + 1]
    /\ IF reply_terminates(tracker, kind)
       THEN /\ m_clusters' = updated
            /\ sm_terminate("plain", i, kind)
            /\ UNCHANGED <<m_mode, m_pDelayed_packet, sm_client, sm_winner, sm_fault>>
       ELSE
       /\ m_clusters' = flagged
       /\ sm_winner' = IF sm_winner = "none" THEN m_clusters[i].target ELSE sm_winner
       /\ UNCHANGED sm_terminated
       /\ IF very_last_response_packet
          THEN \* mxb_assert(cluster.is_replying_to_client || m_pDelayed_packet)
               /\ m_mode' = "Idle"
               /\ sm_fault' = IF sm_debug /\ ~(replying \/ held)
                                 THEN "assert_reply" ELSE sm_fault
               /\ forward(IF held THEN m_pDelayed_packet[1] ELSE packet)
               /\ m_pDelayed_packet' = <<>>
               /\ sm_last' = call("clientReply", "none", TRUE, i, kind, {}, TRUE, FALSE)
          ELSE /\ m_mode' = IF first_response_packet THEN "CollectResults" ELSE m_mode
               /\ IF replying
                  THEN IF delay_last_packet(last_packet_for_this_cluster)
                       THEN \* mxb_assert(!m_pDelayed_packet)
                            /\ sm_fault' = IF sm_debug /\ held
                                              THEN "assert_delay" ELSE sm_fault
                            /\ m_pDelayed_packet' = <<packet>>
                            /\ UNCHANGED sm_client
                            /\ sm_last' = call("clientReply", "none", TRUE, i, kind, {}, FALSE, FALSE)
                       ELSE /\ forward(packet)
                            /\ UNCHANGED <<m_pDelayed_packet, sm_fault>>
                            /\ sm_last' = call("clientReply", "none", TRUE, i, kind, {}, TRUE, FALSE)
                  ELSE /\ UNCHANGED <<m_pDelayed_packet, sm_client, sm_fault>>
                       /\ sm_last' = call("clientReply", "none", TRUE, i, kind, {}, FALSE, FALSE)

\* SmartRouterSession::handleError: terminate(gwbuf_clone(pPacket)), false.
smart_handleError(i) == sm_terminate("error", i, "none")

SmInit ==
    /\ sm_debug \in BOOLEAN
    /\ sm_fault = "none"
    /\ sm_created = "none"
    /\ sm_endpoints = <<>>
    /\ sm_master = "none"
    /\ m_clusters = <<>>
    /\ m_mode = "Idle"
    /\ m_pDelayed_packet = <<>>
    /\ sm_client = <<>>
    /\ sm_nrecv = [t \in TargetSet |-> 0]
    /\ sm_winner = "none"
    /\ sm_terminated = "no"
    /\ sm_last = call("none", "none", FALSE, 0, "none", {}, FALSE, FALSE)
    /\ sm_route = "none"

SmParked ==
    /\ sm_debug = FALSE
    /\ sm_fault = "none"
    /\ sm_created = "none"
    /\ sm_endpoints = <<>>
    /\ sm_master = "none"
    /\ m_clusters = <<>>
    /\ m_mode = "Idle"
    /\ m_pDelayed_packet = <<>>
    /\ sm_client = <<>>
    /\ sm_nrecv = [t \in TargetSet |-> 0]
    /\ sm_winner = "none"
    /\ sm_terminated = "no"
    /\ sm_last = call("none", "none", FALSE, 0, "none", {}, FALSE, FALSE)
    /\ sm_route = "none"

\* The session takes calls: it exists, it is not terminated and no
\* assertion has stopped the process.
SmRunning == sm_created = "session" /\ sm_terminated = "no" /\ sm_fault = "none"

\* The endpoints of the service, their targets all different, in an order
\* that puts the configured master anywhere.
EndpointLists ==
    {<<Targets[1], Targets[2]>>, <<Targets[2], Targets[1]>>,
     <<Targets[1], Targets[2], Targets[3]>>, <<Targets[2], Targets[3], Targets[1]>>}

\* SmartRouterSession::create(pRouter, pSession, pEndpoints)
SmartCreate ==
    /\ sm_created = "none"
    /\ \E order \in EndpointLists, connects \in [1..MaxClusters -> BOOLEAN] :
          LET endpoints == [i \in 1..MaxClusters |->
                              [target |-> order[i], connect_ok |-> connects[i]]]
              clusters == create_clusters(endpoints, Targets[1])
          IN  /\ Len(order) = MaxClusters
              /\ sm_endpoints' = endpoints
              /\ sm_master' = Targets[1]
              /\ m_clusters' = clusters
              /\ sm_created' = IF clusters = <<>> THEN "null" ELSE "session"
    /\ UNCHANGED <<sm_debug, sm_fault, m_mode, m_pDelayed_packet, sm_client,
                   sm_nrecv, sm_winner, sm_terminated, sm_last, sm_route>>
    /\ UNCHANGED not_sm_vars

\* The client sends a request, or the next packet of a split request.
SmartRouteQuery ==
    /\ SmRunning
    /\ \E kind \in RequestKinds \cup {"split_cont", "split_trailer"},
          route \in {"all", "master", "target", "measure"},
          i \in DOMAIN m_clusters, ok \in BOOLEAN, fail_at \in 0..Len(m_clusters) :
          LET split == expecting_request_packets(m_clusters)
              busy == ~split /\ m_mode # "Idle"
          IN  \* inputs that the call does not read are held at one value
              /\ split <=> kind \in {"split_cont", "split_trailer"}
              /\ ~split => fail_at = 0
              /\ split \/ busy => route = "master" /\ ok
              /\ busy => kind = "single"
              /\ route # "target" => i = 1
              /\ routeQuery(kind, route, m_clusters[i].target, ok, fail_at)
    /\ UNCHANGED <<sm_debug, sm_created, sm_endpoints, sm_master>>
    /\ UNCHANGED not_sm_vars

\* A backend delivers a response packet of a cluster, expected or not.
SmartClientReply ==
    /\ SmRunning
    /\ \E i \in DOMAIN m_clusters, kind \in ResponseKinds :
          /\ kind = "data" => sm_nrecv[m_clusters[i].target] + 1 < MaxPackets
          /\ tracker_expecting_response_packets(m_clusters[i].tracker)
                \/ kind = "bad"
          /\ clientReply(i, kind)
    /\ UNCHANGED <<sm_debug, sm_created, sm_endpoints, sm_master, sm_route>>
    /\ UNCHANGED not_sm_vars

\* The connection to a backend is lost and the error is handed to the
\* router session.
SmartHandleError ==
    /\ SmRunning
    /\ \E i \in DOMAIN m_clusters : smart_handleError(i)
    /\ UNCHANGED <<sm_debug, sm_fault, sm_created, sm_endpoints, sm_master,
                   m_clusters, m_mode, m_pDelayed_packet, sm_client, sm_nrecv,
                   sm_winner, sm_route>>
    /\ UNCHANGED not_sm_vars

(***************************************************************************)
(* One Avro client session (avro_client.cc): its state, format and file,   *)
(* the DCB of its client, and the callbacks queued for it on its worker.   *)
(* A request is the sequence of the words of the client's buffer.          *)
(***************************************************************************)
AvroRequests ==
    {<<"REGISTER UUID=", "u1", "TYPE=", "AVRO">>,
     <<"REGISTER UUID=", "u1", "TYPE=", "JSON">>,
     <<"REGISTER UUID=", "u1", "TYPE=", "XML">>,
     <<"REGISTER UUID=", "u1">>,
     <<"REGISTER UUID=">>,
     <<"HELLO">>,
     <<"REQUEST-DATA", "db1.t1.000001">>,
     <<"REQUEST-DATA", "db1.t1.000009">>,
     <<"REQUEST-DATA">>}

\* The files of router->avrodir.
AvroDir == {"db1.t1.000001"}

\* strstr(request, word) != NULL
has_word(request, word) == \E i \in DOMAIN request : request[i] = word

\* The word that follows the first occurrence of word, "" when none does.
word_after(request, word) ==
    LET i == CHOOSE k \in DOMAIN request :
                 request[k] = word /\ \A j \in DOMAIN request : request[j] = word => k <= j
    IN IF i + 1 \in DOMAIN request THEN request[i + 1] ELSE ""

\* AvroSession::do_registration: what it returns and the format it sets.
do_registration(request) ==
    IF has_word(request, "REGISTER UUID=")
    THEN IF word_after(request, "REGISTER UUID=") # ""
         THEN IF has_word(request, "TYPE=")
              THEN CASE word_after(request, "TYPE=") = "AVRO" ->
                            [ret |-> 1, format |-> "AVRO"]
                     [] word_after(request, "TYPE=") = "JSON" ->
                            [ret |-> 1, format |-> "JSON"]
                     [] OTHER -> [ret |-> 0, format |-> "none"]
              ELSE [ret |-> 0, format |-> "none"]
         ELSE [ret |-> 0, format |-> "none"]
    ELSE [ret |-> 0, format |-> "none"]

\* AvroSession::process_command: the file it stores and whether it queues
\* the client callback.
process_command(request, binfile) ==
    IF has_word(request, "REQUEST-DATA")
    THEN LET file == word_after(request, "REQUEST-DATA") IN
         IF file # ""
         THEN [binfile |-> file, queues |-> file \in AvroDir]
         ELSE [binfile |-> binfile, queues |-> FALSE]
    ELSE [binfile |-> binfile, queues |-> FALSE]

\* Fault: the queued callback runs in every state.
callback_runs_mut(state) == TRUE
\* The test of the queued lambda: if (state == AVRO_CLIENT_REQUEST_DATA)
callback_runs(state) == state = "REQUEST_DATA"

\* The record of a call on the session.
av_call(op, request, before, rval, processed, ran) ==
    [op |-> op, request |-> request, before |-> before, rval |-> rval,
     processed |-> processed, ran |-> ran]

\* AvroSession::routeQuery(queue)
avro_routeQuery(request) ==
    CASE av_state = "ERRORED" ->
            /\ av_last' = av_call("routeQuery", request, av_state, 0, FALSE, FALSE)
            /\ UNCHANGED <<av_state, av_format, av_binfile, av_dcb_closed, av_cbq>>
      [] av_state = "UNREGISTERED" ->
            LET reg == do_registration(request) IN
            IF reg.ret = 0
            THEN /\ av_state' = "ERRORED"
                 /\ av_dcb_closed' = TRUE
                 /\ av_last' = av_call("routeQuery", request, av_state, 0, FALSE, FALSE)
                 /\ UNCHANGED <<av_format, av_binfile, av_cbq>>
            ELSE /\ av_state' = "REGISTERED"
                 /\ av_format' = reg.format
                 /\ av_last' = av_call("routeQuery", request, av_state, 1, FALSE, FALSE)
                 /\ UNCHANGED <<av_binfile, av_dcb_closed, av_cbq>>
      [] OTHER ->
            LET cmd == process_command(request, av_binfile) IN
            /\ av_state' = "REQUEST_DATA"
            /\ av_binfile' = cmd.binfile
            /\ av_cbq' = IF cmd.queues THEN av_cbq + 1 ELSE av_cbq
            /\ av_last' = av_call("routeQuery", request, av_state, 1, TRUE, FALSE)
            /\ UNCHANGED <<av_format, av_dcb_closed>>

\* AvroSession::client_callback: it streams a burst and queues itself again
\* when more is to be sent.
client_callback(again) ==
    /\ av_fault' = IF av_debug /\ (av_state # "REQUEST_DATA" \/ av_binfile = "")
                   THEN "assert" ELSE av_fault
    /\ av_cbq' = IF again THEN av_cbq ELSE av_cbq - 1
    /\ av_last' = av_call("callback", <<>>, av_state, 0, FALSE, TRUE)

\* The lambda queued by queue_client_callback, run by the worker while the
\* session exists.
queued_callback(again) ==
    IF callback_runs(av_state)
    THEN client_callback(again)
    ELSE /\ av_cbq' = av_cbq - 1
         /\ av_last' = av_call("callback", <<>>, av_state, 0, FALSE, FALSE)
         /\ UNCHANGED av_fault

AvInit ==
    /\ av_debug \in BOOLEAN
    /\ av_fault = "none"
    /\ av_alive = TRUE
    /\ av_state = "UNREGISTERED"
    /\ av_format = "UNDEFINED"
    /\ av_binfile = ""
    /\ av_dcb_closed = FALSE
    /\ av_cbq = 0
    /\ av_dangling = "none"
    /\ av_last = av_call("none", <<>>, "none", 0, FALSE, FALSE)

AvParked ==
    /\ av_debug = FALSE
    /\ av_fault = "none"
    /\ av_alive = TRUE
    /\ av_state = "UNREGISTERED"
    /\ av_format = "UNDEFINED"
    /\ av_binfile = ""
    /\ av_dcb_closed = FALSE
    /\ av_cbq = 0
    /\ av_dangling = "none"
    /\ av_last = av_call("none", <<>>, "none", 0, FALSE, FALSE)

\* The client sends a request.
AvroRouteQuery ==
    /\ av_alive /\ av_fault = "none"
    /\ \E request \in AvroRequests :
          /\ av_cbq < MaxQueuedCallbacks
          /\ avro_routeQuery(request)
    /\ UNCHANGED <<av_debug, av_fault, av_alive, av_dangling>>
    /\ UNCHANGED not_av_vars

\* The task of notify_all_clients reaches the session and queues its
\* callback, whatever the state of the session.
AvroNotify ==
    /\ av_alive /\ av_fault = "none"
    /\ av_cbq < MaxQueuedCallbacks
    /\ av_cbq' = av_cbq + 1
    /\ av_last' = av_call("notify", <<>>, av_state, 0, FALSE, FALSE)
    /\ UNCHANGED <<av_debug, av_fault, av_alive, av_state, av_format, av_binfile,
                   av_dcb_closed, av_dangling>>
    /\ UNCHANGED not_av_vars

\* The worker runs a queued callback.  The lambda holds the pointer of the
\* session; when the session has been destroyed it reads freed memory and
\* either of its branches can be taken.
AvroRunCallback ==
    /\ av_cbq > 0 /\ av_fault = "none"
    /\ IF av_alive
       THEN /\ \E again \in BOOLEAN : queued_callback(again)
            /\ UNCHANGED av_dangling
       ELSE /\ \E taken \in {"skipped", "ran"} : av_dangling' = taken
            /\ av_cbq' = av_cbq - 1
            /\ UNCHANGED <<av_fault, av_last>>
    /\ UNCHANGED <<av_debug, av_alive, av_state, av_format, av_binfile, av_dcb_closed>>
    /\ UNCHANGED not_av_vars

\* AvroSession::~AvroSession: queued callbacks are not withdrawn.
AvroDestroy ==
    /\ av_alive /\ av_fault = "none"
    /\ av_alive' = FALSE
    /\ UNCHANGED <<av_debug, av_fault, av_state, av_format, av_binfile,
                   av_dcb_closed, av_cbq, av_dangling, av_last>>
    /\ UNCHANGED not_av_vars

(***************************************************************************)
(* The read queue of a DCB: DCB::readq_append, readq_prepend and           *)
(* readq_release.  A buffer chain is the sequence of its bytes, a null     *)
(* chain is the empty sequence; the bytes of the connection are numbered   *)
(* in the order of their arrival.                                          *)
(***************************************************************************)
\* gwbuf_append(head, tail): the chain `head` followed by the chain `tail`;
\* a null head gives tail and a null tail gives head.
gwbuf_append(head, tail) ==
    IF head = <<>> THEN tail
    ELSE IF tail = <<>> THEN head
    ELSE head \o tail

\* gwbuf_consume(buffer, n): the chain without its first n bytes.
gwbuf_consume(buffer, n) == SubSeq(buffer, n + 1, Len(buffer))

\* DCB::readq_append: m_readq afterwards.
readq_append(readq, buffer) == gwbuf_append(readq, buffer)

\* Fault: the buffer is put behind the queue.
readq_prepend_mut(readq, buffer) ==
    IF readq # <<>> THEN gwbuf_append(readq, buffer) ELSE buffer
\* DCB::readq_prepend: m_readq afterwards.
readq_prepend(readq, buffer) ==
    IF readq # <<>> THEN gwbuf_append(buffer, readq) ELSE buffer

\* DCB::readq_release: the returned chain and m_readq afterwards.
readq_release(readq) == [rval |-> readq, m_readq |-> <<>>]

\* The next n bytes of the connection.
Arriving(n) == [i \in 1..n |-> rq_arrived + i]

RqInit ==
    /\ m_readq = <<>>
    /\ rq_held = <<>>
    /\ rq_pc = "idle"
    /\ rq_arrived = 0
    /\ rq_consumed = 0
    /\ rq_case = "none"

RqParked == RqInit

\* DCB::read: the bytes read from the socket are appended to the read queue.
ReadqAppend ==
    /\ \E n \in 1..MaxBuf :
          /\ rq_arrived + n <= MaxBytes
          /\ m_readq' = readq_append(m_readq, Arriving(n))
          /\ rq_arrived' = rq_arrived + n
    /\ rq_case' = IF rq_case = "prepended" THEN "appended" ELSE rq_case
    /\ UNCHANGED <<rq_held, rq_pc, rq_consumed>>
    /\ UNCHANGED not_rq_vars

\* The protocol takes the read queue.
ReadqRelease ==
    /\ rq_pc = "idle"
    /\ rq_held' = readq_release(m_readq).rval
    /\ m_readq' = readq_release(m_readq).m_readq
    /\ rq_pc' = "holding"
    /\ UNCHANGED <<rq_arrived, rq_consumed, rq_case>>
    /\ UNCHANGED not_rq_vars

\* The protocol processes the complete packets at the front of what it holds.
ReadqConsume ==
    /\ rq_pc = "holding"
    /\ \E n \in 1..Len(rq_held) :
          /\ rq_held' = gwbuf_consume(rq_held, n)
          /\ rq_consumed' = rq_consumed + n
    /\ UNCHANGED <<m_readq, rq_pc, rq_arrived, rq_case>>
    /\ UNCHANGED not_rq_vars

\* The protocol stores the partial packet that is left for the next call.
ReadqPrepend ==
    /\ rq_pc = "holding"
    /\ m_readq' = readq_prepend(m_readq, rq_held)
    /\ rq_held' = <<>>
    /\ rq_pc' = "idle"
    /\ rq_case' = IF m_readq # <<>> /\ rq_held # <<>> /\ rq_consumed > 0
                  THEN "prepended" ELSE rq_case
    /\ UNCHANGED <<rq_arrived, rq_consumed>>
    /\ UNCHANGED not_rq_vars

(***************************************************************************)
(* Streaming of Avro files to one client: AvroSession::client_callback,    *)
(* stream_data, stream_json, stream_binary and rotate_avro_file.  A file   *)
(* is a sequence of data blocks, a block is sent as a whole and its        *)
(* buffer_size is the unit in which the burst is counted; what the client  *)
(* receives is the block <<file, block>>, or <<file, 0>> for the schema.   *)
(***************************************************************************)
AvroFiles == 1..MaxFiles

\* AVRO_DATA_BURST_SIZE, in blocks.
AVRO_DATA_BURST_SIZE == 2

\* No file is open.
NoHandle == [file |-> 0, block |-> 0, unread |-> FALSE]

\* access(filename, R_OK) == 0
file_exists(f) == f \in AvroFiles /\ st_nblocks[f] > 0

\* get_next_filename: the file number incremented by one.
get_next_filename(f) == f + 1

\* maxavro_file_open: the handle stands at the first block of the file.
maxavro_file_open(f) ==
    IF file_exists(f) THEN [file |-> f, block |-> 1, unread |-> TRUE] ELSE NoHandle

\* maxavro_next_block: moves to the next block when there is one.
maxavro_next_block(h) ==
    IF h.block < st_nblocks[h.file]
    THEN [ok |-> TRUE, handle |-> [h EXCEPT !.block = @ + 1, !.unread = TRUE]]
    ELSE [ok |-> FALSE, handle |-> [h EXCEPT !.unread = FALSE]]

\* The records of the current block, when they have not been read yet.
block_records(h) == IF h.unread THEN <<<<h.file, h.block>>>> ELSE <<>>

RECURSIVE stream_json_from(_, _, _)
\* The do-while loop of stream_json.
stream_json_from(h, bytes, sent) ==
    LET rows == sent \o block_records(h)
        total == bytes + 1
        next == maxavro_next_block(h)
    IN  IF next.ok /\ total < AVRO_DATA_BURST_SIZE
        THEN stream_json_from(next.handle, total, rows)
        ELSE [handle |-> next.handle, sent |-> rows,
              read_more |-> total >= AVRO_DATA_BURST_SIZE]

\* AvroSession::stream_json
stream_json(h) == stream_json_from(h, 0, <<>>)

RECURSIVE stream_binary_from(_, _, _)
\* The while loop of stream_binary; maxavro_record_read_binary returns the
\* current block and moves on, or NULL when the block has been read.
stream_binary_from(h, bytes, sent) ==
    IF bytes < AVRO_DATA_BURST_SIZE
    THEN IF h.unread
         THEN stream_binary_from(maxavro_next_block(h).handle, bytes + 1,
                                 sent \o block_records(h))
         ELSE [handle |-> h, sent |-> sent,
               read_more |-> bytes + 1 >= AVRO_DATA_BURST_SIZE]
    ELSE [handle |-> h, sent |-> sent, read_more |-> TRUE]

\* AvroSession::stream_binary
stream_binary(h) == stream_binary_from(h, 0, <<>>)

\* AvroSession::stream_data: the handle, what was sent and read_more.
stream_data(h, binfile, format) ==
    LET opened == IF h = NoHandle THEN maxavro_file_open(binfile) ELSE h
    IN  IF opened = NoHandle
        THEN [handle |-> opened, sent |-> <<>>, read_more |-> FALSE]
        ELSE IF format = "JSON" THEN stream_json(opened) ELSE stream_binary(opened)

\* client_callback rotates whenever the next file can be read.
rotates(next_file, read_more) == next_file

\* Fault: the callback queues itself whatever is left.
queues_again_mut(next_file, read_more) == TRUE
\* client_callback queues itself again.
queues_again(next_file, read_more) == next_file \/ read_more

\* AvroSession::client_callback
client_callback_stream ==
    LET schema == IF last_sent_pos = 0 THEN <<<<st_binfile, 0>>>> ELSE <<>>
        data == stream_data(file_handle, st_binfile, st_format)
        filename == get_next_filename(st_binfile)
        next_file == file_exists(filename)
        rotate == rotates(next_file, data.read_more)
        again == queues_again(next_file, data.read_more)
    IN  /\ st_sent' = st_sent \o schema \o data.sent
        /\ st_binfile' = IF rotate THEN filename ELSE st_binfile
        /\ file_handle' = IF rotate THEN maxavro_file_open(filename) ELSE data.handle
        /\ last_sent_pos' = IF rotate THEN 0 ELSE 1
        /\ st_queue' = IF again THEN Append(Tail(st_queue), "avro") ELSE Tail(st_queue)
        /\ st_last' = [op |-> "callback", binfile |-> st_binfile,
                       burst |-> Len(data.sent), after |-> data.handle,
                       read_more |-> data.read_more, next_file |-> next_file,
                       queued |-> IF again THEN 1 ELSE 0]

StInit ==
    /\ st_format \in {"JSON", "AVRO"}
    /\ st_nblocks \in [AvroFiles -> 0..MaxBlocks]
    /\ st_nblocks[1] > 0
    /\ \A f \in AvroFiles : f > 1 /\ st_nblocks[f] > 0 => st_nblocks[f - 1] > 0
    /\ st_binfile = 1
    /\ file_handle = NoHandle
    /\ last_sent_pos = 0
    /\ st_sent = <<>>
    /\ st_queue = <<"avro">>
    /\ st_last = [op |-> "none", binfile |-> 0, burst |-> 0, after |-> NoHandle,
                  read_more |-> FALSE, next_file |-> FALSE, queued |-> 0]

StParked ==
    /\ st_format = "JSON"
    /\ st_nblocks = [f \in AvroFiles |-> IF f = 1 THEN 1 ELSE 0]
    /\ st_binfile = 1
    /\ file_handle = NoHandle
    /\ last_sent_pos = 0
    /\ st_sent = <<>>
    /\ st_queue = <<"avro">>
    /\ st_last = [op |-> "none", binfile |-> 0, burst |-> 0, after |-> NoHandle,
                  read_more |-> FALSE, next_file |-> FALSE, queued |-> 0]

\* The worker takes the lambda of queue_client_callback from its queue and
\* runs it; the session is in the state REQUEST_DATA.
StreamCallback ==
    /\ st_queue # <<>> /\ Head(st_queue) = "avro"
    /\ client_callback_stream
    /\ UNCHANGED <<st_format, st_nblocks>>
    /\ UNCHANGED not_st_vars

\* A task for another DCB is posted to the worker.
StreamOtherPost ==
    /\ Len(st_queue) < MaxQueue
    /\ st_queue' = Append(st_queue, "other")
    /\ st_last' = [st_last EXCEPT !.op = "post"]
    /\ UNCHANGED <<st_format, st_nblocks, st_binfile, file_handle, last_sent_pos,
                   st_sent>>
    /\ UNCHANGED not_st_vars

\* The worker runs the task of another DCB.
StreamOtherRun ==
    /\ st_queue # <<>> /\ Head(st_queue) = "other"
    /\ st_queue' = Tail(st_queue)
    /\ st_last' = [st_last EXCEPT !.op = "other"]
    /\ UNCHANGED <<st_format, st_nblocks, st_binfile, file_handle, last_sent_pos,
                   st_sent>>
    /\ UNCHANGED not_st_vars

ExtParked ==
    /\ LsnParked
    /\ BcParked
    /\ AffParked
    /\ SmParked
    /\ AvParked
    /\ RqParked
    /\ StParked

IoParked ==
    /\ LogParked
    /\ IdParked
    /\ DcbParked
    /\ EvParked
    /\ AccParked
    /\ ExtParked

CoreParked ==
    /\ SessionInit
    /\ HolderParked
    /\ QueryParked
    /\ VariablesInit

InitQuery ==
    /\ SessionInit
    /\ HolderParked
    /\ QueryInit
    /\ VariablesInit
    /\ IoParked

NextQuery ==
    \/ ClientQuery
    \/ SetResponse
    \/ RouteQueryReturn
    \/ ServerResponseFinal
    \/ ServerResponsePartial
    \/ ResetBookkeeping

SpecQuery == InitQuery /\ [][NextQuery]_vars

Init ==
    /\ SessionInit
    /\ HolderParked
    /\ QueryParked
    /\ VariablesInit
    /\ IoParked

InitHolders ==
    /\ SessionInit
    /\ HolderInit
    /\ QueryParked
    /\ VariablesInit
    /\ IoParked

NextHolders ==
    \/ HolderPutAdd
    \/ HolderPutTest
    \/ HolderGetRef

SpecHolders == InitHolders /\ [][NextHolders]_vars

NextVariables ==
    \/ AddVariable
    \/ SetVariableValue
    \/ RemoveVariable

SpecVariables == Init /\ [][NextVariables]_vars

Next ==
    \/ Start
    \/ TerminateNoError
    \/ TerminateError
    \/ HandleError
    \/ LinkBackend
    \/ UnlinkBackend
    \/ GetRef
    \/ PutRef
    \/ ClientDcbClose
    \/ ClientDcbRelease
    \/ DelayRouting
    \/ DelayedCallExecute
    \/ DelayedCallCancel

Spec == Init /\ [][Next]_vars

InitLog ==
    /\ CoreParked
    /\ LogInit
    /\ IdParked
    /\ DcbParked
    /\ EvParked
    /\ AccParked
    /\ ExtParked

NextLog ==
    \/ AppendSessionLog

SpecLog == InitLog /\ [][NextLog]_vars

InitIds ==
    /\ CoreParked
    /\ LogParked
    /\ IdInit
    /\ DcbParked
    /\ EvParked
    /\ AccParked
    /\ ExtParked

NextIds ==
    \/ IdAtomicAdd
    \/ IdReturn

SpecIds == InitIds /\ [][NextIds]_vars

InitDcb ==
    /\ CoreParked
    /\ LogParked
    /\ IdParked
    /\ DcbInit
    /\ EvParked
    /\ AccParked
    /\ ExtParked

NextDcb ==
    \/ WriteqAppend
    \/ WriteqDrain
    \/ DcbEvent
    \/ DcbClose

SpecDcb == InitDcb /\ [][NextDcb]_vars

InitEvents ==
    /\ CoreParked
    /\ LogParked
    /\ IdParked
    /\ DcbParked
    /\ EvInit
    /\ AccParked
    /\ ExtParked

NextEvents ==
    \/ EpollDeliver
    \/ TriggerEvent
    \/ HandlerReturn

SpecEvents == InitEvents /\ [][NextEvents]_vars

InitAccept ==
    /\ CoreParked
    /\ LogParked
    /\ IdParked
    /\ DcbParked
    /\ EvParked
    /\ AccInit
    /\ ExtParked

NextAccept ==
    \/ AcceptOne
    \/ AcceptEnableEvents
    \/ AcceptInitConnection
    \/ ClientReadReady
    \/ ClientHangup

SpecAccept == InitAccept /\ [][NextAccept]_vars

BaseIoParked ==
    /\ LogParked
    /\ IdParked
    /\ DcbParked
    /\ EvParked
    /\ AccParked

InitListener ==
    /\ CoreParked
    /\ BaseIoParked
    /\ LsnInit
    /\ BcParked
    /\ AffParked
    /\ SmParked
    /\ AvParked
    /\ RqParked
    /\ StParked

NextListener ==
    \/ ListenerListen
    \/ ListenerStop
    \/ ListenerStart
    \/ ListenerDestroy
    \/ ListenerAccept
    \/ MarkAuthAsFailed
    \/ AuthDecay
    \/ ClientDcbClosed

SpecListener == InitListener /\ [][NextListener]_vars

InitBroadcast ==
    /\ CoreParked
    /\ BaseIoParked
    /\ LsnParked
    /\ BcInit
    /\ AffParked
    /\ SmParked
    /\ AvParked
    /\ RqParked
    /\ StParked

NextBroadcast ==
    \/ AvroSessionCreate
    \/ AvroSessionDestroy
    \/ NotifyAllClients
    \/ WorkerRunNotify
    \/ WorkerRunCallback

SpecBroadcast == InitBroadcast /\ [][NextBroadcast]_vars

InitAffinity ==
    /\ CoreParked
    /\ BaseIoParked
    /\ LsnParked
    /\ BcParked
    /\ AffInit
    /\ SmParked
    /\ AvParked
    /\ RqParked
    /\ StParked

NextAffinity ==
    \/ AffCreateBackend
    \/ AffLinkBackend
    \/ AffUnlinkBackend
    \/ AffDelayRouting
    \/ AffDelayedCall

SpecAffinity == InitAffinity /\ [][NextAffinity]_vars

InitSmart ==
    /\ CoreParked
    /\ BaseIoParked
    /\ LsnParked
    /\ BcParked
    /\ AffParked
    /\ SmInit
    /\ AvParked
    /\ RqParked
    /\ StParked

NextSmart ==
    \/ SmartCreate
    \/ SmartRouteQuery
    \/ SmartClientReply
    \/ SmartHandleError

SpecSmart == InitSmart /\ [][NextSmart]_vars

InitAvro ==
    /\ CoreParked
    /\ BaseIoParked
    /\ LsnParked
    /\ BcParked
    /\ AffParked
    /\ SmParked
    /\ AvInit
    /\ RqParked
    /\ StParked

NextAvro ==
    \/ AvroRouteQuery
    \/ AvroNotify
    \/ AvroRunCallback
    \/ AvroDestroy

SpecAvro == InitAvro /\ [][NextAvro]_vars

InitReadq ==
    /\ CoreParked
    /\ BaseIoParked
    /\ LsnParked
    /\ BcParked
    /\ AffParked
    /\ SmParked
    /\ AvParked
    /\ RqInit
    /\ StParked

NextReadq ==
    \/ ReadqAppend
    \/ ReadqRelease
    \/ ReadqConsume
    \/ ReadqPrepend

SpecReadq == InitReadq /\ [][NextReadq]_vars

InitStream ==
    /\ CoreParked
    /\ BaseIoParked
    /\ LsnParked
    /\ BcParked
    /\ AffParked
    /\ SmParked
    /\ AvParked
    /\ RqParked
    /\ StInit

NextStream ==
    \/ StreamCallback
    \/ StreamOtherPost
    \/ StreamOtherRun

SpecStream == InitStream /\ [][NextStream]_vars

\* The worker runs the tasks of its queue one after the other.
SpecStreamFair ==
    /\ SpecStream
    /\ WF_vars(StreamCallback)
    /\ WF_vars(StreamOtherRun)

(***************************************************************************)
(* Properties of the session life cycle.                                   *)
(***************************************************************************)
PendingTasks == {t \in TaskIds : tasks[t] = "pending"}
FinishedTasks == {t \in TaskIds : tasks[t] \in {"routed", "discarded", "cancelled"}}

\* C1 (as stated): the reference count is zero exactly when the client DCB
\* has released the session and no backend DCB is linked.
C1_Original ==
    (refcount = 0) <=> (~creation_ref /\ dcb_set = {})

\* C1 (amended): the reference count is zero, and the session freed, exactly
\* when the client DCB has released the session, no backend DCB is linked, no
\* reference handed out by session_get_ref is outstanding and no delayed
\* routing task is pending.
C1_RefcountZeroIff ==
    /\ (refcount = 0) <=> (freed = 1)
    /\ (freed = 1) <=> (/\ ~creation_ref
                        /\ dcb_set = {}
                        /\ ext_refs = 0
                        /\ PendingTasks = {})
    /\ freed <= 1

C1_Witness ==
    /\ freed = 1 /\ refcount = 0 /\ ~creation_ref
    /\ \E t \in TaskIds : task_puts[t] = 1

\* C2: terminate on a STARTED session moves it to STOPPING, writes the error
\* (when given) and then closes the client DCB; in every other state it
\* changes nothing.  terminate closes the client DCB at most once.
C2_TerminateStep(error) ==
    IF m_state = "STARTED"
    THEN /\ m_state' = "STOPPING"
         /\ client_nclose' = client_nclose + 1
         /\ term_closes' = term_closes + 1
         /\ client_log' = client_log \o
               (IF error = NULL THEN <<"close">> ELSE <<error, "close">>)
    ELSE UNCHANGED <<m_state, client_nclose, client_log, term_closes>>

C2_Terminate ==
    /\ [](term_closes <= 1)
    /\ [][/\ TerminateNoError => C2_TerminateStep(NULL)
          /\ TerminateError => C2_TerminateStep("terminate_error")]_vars

C2_Witness ==
    /\ term_closes = 1
    /\ m_state = "STOPPING"
    /\ client_log = <<"terminate_error", "close">>

\* C3: the reference count is the creation reference (while unreleased) plus
\* the linked backend DCBs plus the outstanding session_get_ref references
\* (those of callers and those held by pending delayed routing tasks).
C3_RefcountSum ==
    refcount = (IF creation_ref THEN 1 ELSE 0)
               + Cardinality(dcb_set)
               + ext_refs
               + Cardinality(PendingTasks)

C3_Witness ==
    /\ Cardinality(dcb_set) >= 2
    /\ ext_refs >= 1
    /\ PendingTasks # {}
    /\ refcount >= 5

\* C5: while a delayed routing task is pending the session is not freed;
\* the task routes its buffer only if the session is STARTED when it runs and
\* discards it otherwise; it releases its reference exactly once.
C5_DelayedRouting ==
    /\ [](\A t \in TaskIds :
            /\ tasks[t] = "pending" => (freed = 0 /\ refcount >= 1)
            /\ task_puts[t] = (IF t \in FinishedTasks THEN 1 ELSE 0))
    /\ [][\A t \in TaskIds :
            /\ tasks'[t] = "routed" /\ tasks[t] # "routed" =>
                  (tasks[t] = "pending" /\ m_state = "STARTED")
            /\ tasks'[t] = "discarded" /\ tasks[t] # "discarded" =>
                  (tasks[t] = "pending" /\ m_state # "STARTED")]_vars

C5_Witness ==
    /\ m_state = "STOPPING"
    /\ ~creation_ref /\ dcb_set = {} /\ ext_refs = 0
    /\ PendingTasks # {}
    /\ freed = 0
    /\ \E t \in TaskIds : tasks[t] = "routed"

(***************************************************************************)
(* Properties of concurrent reference release.                             *)
(***************************************************************************)
\* C4: with holders releasing concurrently, session_free is called at most
\* once, only by the release that took the count from 1 to 0, never while a
\* holder still owns a reference, and it is called once all have released.
C4_FreedExactlyOnce ==
    /\ [](/\ free_calls <= 1
          /\ free_calls = 1 => (\A h \in Holders : holder_refs[h] = 0)
          /\ free_calls = 1 => shared_refcount = 0
          /\ ((\A h \in Holders : holder_refs[h] = 0 /\ holder_pc[h] = "idle")
                 => free_calls = 1))
    /\ [][free_calls' # free_calls =>
            \E h \in Holders : /\ holder_pc[h] = "test"
                               /\ holder_old[h] = 1
                               /\ shared_refcount = 0]_vars

C4_Witness ==
    /\ free_calls = 1
    /\ Cardinality({h \in Holders : holder_old[h] > 1}) >= 2
    /\ \E h \in Holders : holder_pc[h] = "test"

(***************************************************************************)
(* Properties of query routing and statement book-keeping.                 *)
(***************************************************************************)
RingIndexes == 1..Len(m_last_queries)

\* C6 (as stated): a session_set_response call made while a response is
\* already stored leaves the stored upstream, buffer and service unchanged.
C6_Original ==
    [][(SetResponse /\ response.buffer # NULL) => response' = response]_vars

\* The statement is marked complete in the ring, if the ring holds it.
StatementComplete(ring, stmt) ==
    \A i \in 1..Len(ring) : ring[i].stmt = stmt => ring[i].complete

\* C7 (as stated): when routeQuery returns with a response set, the stored
\* upstream has been called exactly once with the stored buffer, the slot is
\* empty and the statement being routed is booked as complete; with no
\* response set no upstream call is made.
C7_Original ==
    [][(RouteQueryReturn /\ fault' = "none") =>
          IF response.buffer # NULL
          THEN /\ up_calls' = <<<<response.up, response.buffer>>>>
               /\ response'.up = NULL /\ response'.buffer = NULL
               /\ StatementComplete(m_last_queries', n_routed + 1)
          ELSE /\ up_calls' = <<>>
               /\ response' = response]_vars

\* The part of C7 about the response slot alone.
C7_DeliveredOnce ==
    [][(RouteQueryReturn /\ fault' = "none") =>
          IF response.buffer # NULL
          THEN /\ up_calls' = <<<<response.up, response.buffer>>>>
               /\ response'.up = NULL /\ response'.buffer = NULL
          ELSE /\ up_calls' = <<>>
               /\ response' = response]_vars

Min(a, b) == IF a < b THEN a ELSE b

\* C8: the ring holds the min(k, N) most recently retained statements,
\* newest first, where k statements have been retained and N is
\* retain_last_statements; with N = 0 nothing is kept and nothing changes.
C8_RingBounded ==
    fault = "none" =>
        /\ Len(m_last_queries) <= m_retain_last_statements
        /\ Len(m_last_queries) = Min(n_retained, m_retain_last_statements)
        /\ \A i \in RingIndexes : m_last_queries[i].stmt = n_retained - i + 1
        /\ m_retain_last_statements = 0 =>
              (m_last_queries = <<>> /\ m_current_query = -1 /\ ~oob)

C8_Witness ==
    /\ fault = "none"
    /\ m_retain_last_statements >= 2
    /\ n_retained > m_retain_last_statements
    /\ Len(m_last_queries) = m_retain_last_statements
    /\ \E i \in RingIndexes : m_last_queries[i].complete
    /\ \E i \in RingIndexes : ~m_last_queries[i].complete

\* C9 (as stated): for every ring depth N >= 1, with only retain_statement
\* calls and in-order final responses, a response is booked against the
\* statement it answers or ignored, and the current-query index is back
\* inside the ring once every response has been received.
C9_Original ==
    (only_stream /\ m_retain_last_statements >= 1) =>
        /\ \A i \in RingIndexes :
              \A b \in m_last_queries[i].booked : b[1] = m_last_queries[i].stmt
        /\ (outstanding = <<>> /\ route_pc = "idle" /\ n_routed = n_retained) =>
              (m_current_query >= -1 /\ m_current_query < Len(m_last_queries))

\* The same for ring depths N >= 2.
C9_DepthTwoOrMore ==
    (only_stream /\ m_retain_last_statements >= 2) =>
        /\ \A i \in RingIndexes :
              \A b \in m_last_queries[i].booked : b[1] = m_last_queries[i].stmt
        /\ (outstanding = <<>> /\ route_pc = "idle" /\ n_routed = n_retained) =>
              (m_current_query >= -1 /\ m_current_query < Len(m_last_queries))

(***************************************************************************)
(* Properties of the session variables.                                    *)
(***************************************************************************)
\* C10 (as stated): a variable that is stored under a name equal to `name`
\* up to letter case is found by set_variable_value(name) and removed by
\* remove_variable(name), which returns true and yields the stored context.
C10_Original ==
    /\ (last_call.op = "remove" /\ last_call.stored) =>
          (/\ ret = "true"
           /\ ~Stored(last_call.name)
           /\ (last_call.arg = "context" => ret_context = last_call.context))
    /\ (last_call.op = "set" /\ last_call.stored) =>
          (/\ handler_calls # <<>>
           /\ handler_calls[Len(handler_calls)][2] = last_call.context)
    /\ (last_call.op = "set" /\ ~last_call.stored /\ last_call.arg = "malloc_ok") =>
          (ret = "unknown variable")

\* The name starts with the system prefix, whatever the letter case.
HasSystemPrefix(name) ==
    /\ Len(name) >= Len(PREFIX)
    /\ transform_toupper(SubSeq(name, 1, Len(PREFIX))) = PREFIX

\* The keys of the map that equal the name up to letter case.
SameNameKeys(map, name) ==
    {k \in DOMAIN map : transform_toupper(k) = transform_toupper(name)}

\* C11: add_variable returns false and leaves the map unchanged when the name
\* lacks the prefix "@MAXSCALE." (letter case ignored) or a variable of the
\* same name up to letter case exists, whose handler and context are kept;
\* otherwise it returns true and the variable is present with the handler
\* and context of the call.
C11_AddVariable ==
    [][last_call'.op = "add" =>
          LET name == last_call'.name
          IN  IF ~HasSystemPrefix(name) \/ SameNameKeys(m_variables, name) # {}
              THEN /\ ret' = "false"
                   /\ m_variables' = m_variables
              ELSE /\ ret' = "true"
                   /\ Cardinality(SameNameKeys(m_variables', name)) = 1
                   /\ \A k \in SameNameKeys(m_variables', name) :
                         /\ m_variables'[k] \in Registrations
                         /\ m_variables'[k].context = last_call'.arg
                   /\ \A k \in DOMAIN m_variables :
                         k \in DOMAIN m_variables' /\ m_variables'[k] = m_variables[k]
                   /\ Cardinality(DOMAIN m_variables') =
                         Cardinality(DOMAIN m_variables) + 1]_vars

\* A second registration of a stored name, in another letter case and with
\* another context, has been refused while two variables are stored.
C11_Witness ==
    /\ last_call.op = "add"
    /\ ret = "false"
    /\ HasSystemPrefix(last_call.name)
    /\ last_call.name \notin DOMAIN m_variables
    /\ \E k \in SameNameKeys(m_variables, last_call.name) :
          m_variables[k].context # last_call.arg
    /\ Cardinality(DOMAIN m_variables) >= 2

(***************************************************************************)
(* Properties of error handling and of the session states.                 *)
(***************************************************************************)
\* C12: handleError hands the error to the client connection's write before
\* it calls terminate, and returns false; on a STARTED session the session
\* is STOPPING and the client DCB closed on return, the error having been
\* written before the close; in any other state only the write happens.
C12_HandleError ==
    [][handle_errors' # handle_errors =>
          /\ session_rv' = "false"
          /\ IF m_state = "STARTED"
             THEN /\ m_state' = "STOPPING"
                  /\ client_nclose = 0 /\ client_nclose' = 1
                  /\ client_log' = client_log \o <<"handle_error", "close">>
             ELSE /\ m_state' = m_state
                  /\ client_nclose' = client_nclose
                  /\ client_log' = client_log \o <<"handle_error">>]_vars

C12_Witness ==
    /\ handle_errors = 1
    /\ session_rv = "false"
    /\ m_state = "STOPPING"
    /\ client_nclose = 1
    /\ client_log = <<"handle_error", "close">>

\* The changes of state the life cycle allows.
StateEdges ==
    { <<"CREATED", "STARTED">>, <<"CREATED", "STOPPING">>,
      <<"STARTED", "STOPPING">>, <<"STOPPING", "FREE">> }

C14_Original ==
    /\ m_log = SubSeq(log_history, 1, Min(Len(log_history), session_trace))
    /\ Len(m_log) <= session_trace

\* What the log holds: one line fewer than the depth.
C14_OneLess ==
    m_log = SubSeq(log_history, 1,
                   Min(Len(log_history),
                       IF session_trace = 0 THEN 0 ELSE session_trace - 1))

(***************************************************************************)
(* Properties of the session id generator.                                 *)
(***************************************************************************)
\* The calls that have returned: <<worker, position>>.
ReturnedCalls == {c \in Workers \X (1..MaxIds + 1) : c[2] <= Len(ids_got[c[1]])}

\* C15: the ids handed out are pairwise distinct over all callers and
\* workers, the atomic updates return 1, 2, 3, ... in their order, each
\* caller sees increasing ids, and 0 is never handed out.
C15_UniqueIds ==
    /\ \A c, d \in ReturnedCalls :
          c # d => ids_got[c[1]][c[2]] # ids_got[d[1]][d[2]]
    /\ \A i \in DOMAIN issued : issued[i] = i
    /\ \A c \in ReturnedCalls :
          /\ ids_got[c[1]][c[2]] # 0
          /\ ids_got[c[1]][c[2]] \in 1..Len(issued)
          /\ c[2] > 1 => ids_got[c[1]][c[2] - 1] < ids_got[c[1]][c[2]]
    /\ \A w \in Workers : id_pc[w] = "return" =>
          /\ id_reg[w] \in 1..Len(issued)
          /\ \A c \in ReturnedCalls : ids_got[c[1]][c[2]] # id_reg[w]
    /\ next_session_id = Len(issued) + 1

\* Two workers were inside session_get_next_id together and the one that
\* did its atomic update last returned first.
C15_Witness ==
    /\ \E w, v \in Workers :
          /\ w # v
          /\ id_pc[w] = "return"
          /\ ids_got[v] # <<>>
          /\ ids_got[v][Len(ids_got[v])] > id_reg[w]
    /\ Len(issued) >= 3

(***************************************************************************)
(* Properties of the DCB.                                                  *)
(***************************************************************************)
Fired(reason) == \E i \in DOMAIN dcb_last.fired : dcb_last.fired[i] = reason

\* C16: DCB::close is idempotent and final.  The first close removes the DCB
\* from polling and hands it to its manager, once; a later close changes
\* nothing but the count of closes; a call or an event that finds the DCB
\* closed fires no callback, runs no handler and writes nothing.
C16_CloseFinal ==
    /\ [](/\ m_nClose # 0 =>
                (/\ poll_removes = 1 /\ destroy_calls = 1 /\ ~polling
                 /\ m_writeq = <<>>)
          /\ m_nClose = 0 =>
                (poll_removes = 0 /\ destroy_calls = 0 /\ polling)
          /\ dcb_last.closed =>
                (/\ dcb_last.fired = <<>>
                 /\ dcb_last.wrote = 0
                 /\ dcb_last.rv \in {"false", "none", "suppressed"}))
    /\ [][m_nClose # 0 =>
            UNCHANGED <<m_writeq, m_writeqlen, m_high_water_reached,
                        n_high_water, n_low_water, polling, peer, appended,
                        poll_removes, destroy_calls>>]_vars

\* Closed twice with bytes left in the queue, and an event, a drain and an
\* append have found the DCB closed.
C16_Witness ==
    /\ m_nClose = 2
    /\ Len(peer) < Len(appended)
    /\ dcb_last.op \in {"event", "drain", "append"}
    /\ dcb_last.closed

\* C17: the watermarks are edge-triggered with hysteresis.  HIGH_WATER fires
\* once in the call that takes the queue above high_water while the flag is
\* clear, LOW_WATER fires once in the call that takes it below low_water
\* while the flag is set and never without a HIGH_WATER before it; the two
\* never fire in one call; m_high_water_reached is true exactly from a
\* HIGH_WATER until the next LOW_WATER.
C17_Watermarks ==
    /\ [](/\ n_high_water = n_low_water + (IF m_high_water_reached THEN 1 ELSE 0)
          /\ m_nClose = 0 =>
                (/\ m_writeqlen > m_high_water => m_high_water_reached
                 /\ m_high_water_reached => m_writeqlen >= m_low_water)
          /\ ~(Fired("HIGH_WATER") /\ Fired("LOW_WATER"))
          /\ dcb_last.op = "drain" => ~Fired("HIGH_WATER")
          /\ \A i, j \in DOMAIN dcb_last.fired :
                i # j => dcb_last.fired[i] # dcb_last.fired[j])
    /\ [][/\ n_high_water' \in {n_high_water, n_high_water + 1}
          /\ n_low_water' \in {n_low_water, n_low_water + 1}
          /\ n_high_water' # n_high_water <=>
                (/\ ~m_high_water_reached
                 /\ m_writeqlen <= m_high_water
                 /\ m_writeqlen' > m_high_water)
          /\ n_low_water' # n_low_water <=>
                (/\ m_high_water_reached
                 /\ m_nClose' = m_nClose
                 /\ m_writeqlen >= m_low_water
                 /\ m_writeqlen' < m_low_water)
          /\ n_high_water' # n_high_water =>
                (dcb_last'.fired # <<>>
                 /\ dcb_last'.fired[Len(dcb_last'.fired)] = "HIGH_WATER")
          /\ n_low_water' # n_low_water =>
                (dcb_last'.fired # <<>>
                 /\ dcb_last'.fired[Len(dcb_last'.fired)] = "LOW_WATER")]_vars

\* The queue went above high_water, below low_water and above high_water
\* again.
C17_Witness ==
    /\ n_high_water = 2
    /\ n_low_water = 1
    /\ m_high_water_reached
    /\ m_writeq # <<>>
    /\ Fired("HIGH_WATER")

\* The sequence is a prefix of the other.
IsPrefix(a, b) == Len(a) <= Len(b) /\ a = SubSeq(b, 1, Len(a))

\* C19: with appends and partial drains on an open DCB, the bytes the peer
\* has received are a prefix of the appended buffers put together in call
\* order, and all of them once the queue is empty; what is queued is the
\* rest, in order.
C19_WriteOrder ==
    /\ IsPrefix(peer, appended)
    /\ \A i \in DOMAIN appended : appended[i] = i
    /\ m_nClose = 0 =>
          (/\ peer \o m_writeq = appended
           /\ m_writeqlen = Len(m_writeq)
           /\ m_writeq = <<>> => peer = appended)

\* Three buffers were appended, the peer has part of them after a drain
\* that stopped early, the rest is queued.
C19_Witness ==
    /\ m_nClose = 0
    /\ Len(appended) >= 5
    /\ Len(peer) >= 2
    /\ Len(m_writeq) >= 2
    /\ dcb_last.op = "append" /\ dcb_last.wrote = 0

\* C18: of the trigger calls made during one handler invocation only the
\* last is honoured; it is delivered once, as a synthesised invocation of
\* the handler, when the invocation returns and before the worker is back
\* in epoll_wait; an invocation without trigger calls is followed by none.
C18_TriggeredEvents ==
    /\ [](/\ ev_pc = "epoll_wait" => m_triggered_event = "none"
          /\ ev_pc = "handler" =>
                m_triggered_event = (IF ev_triggers = <<>> THEN "none"
                                     ELSE ev_triggers[Len(ev_triggers)])
          /\ Cardinality({i \in DOMAIN ev_log : ev_log[i].synthetic})
                <= n_trigger_calls)
    /\ [][/\ (ev_pc = "handler" /\ ev_triggers' = <<>> /\ ev_triggers # <<>>) =>
                (/\ ev_pc' = "handler"
                 /\ ev_log' = Append(ev_log,
                                     [event |-> ev_triggers[Len(ev_triggers)],
                                      synthetic |-> TRUE])
                 /\ ev_current' = ev_triggers[Len(ev_triggers)])
          /\ (ev_pc = "handler" /\ ev_triggers = <<>> /\ n_trigger_calls' = n_trigger_calls) =>
                (ev_pc' = "epoll_wait" /\ ev_log' = ev_log)
          /\ (Len(ev_log') > Len(ev_log) /\ ev_log'[Len(ev_log')].synthetic) =>
                (ev_pc = "handler" /\ ev_triggers # <<>>)]_vars

\* The handler of a read event made two trigger calls, the last one for a
\* read event; it got one synthesised read event and nothing after it.
C18_Witness ==
    /\ ev_pc = "epoll_wait"
    /\ n_trigger_calls = 2
    /\ ev_log = <<[event |-> "EPOLLIN", synthetic |-> FALSE],
                  [event |-> "EPOLLIN", synthetic |-> TRUE]>>

(***************************************************************************)
(* Properties of the listener.                                             *)
(***************************************************************************)
\* C20: for an accepted client connection init_connection is called exactly
\* once, and before any read_ready; when it returns false the DCB is closed
\* and read_ready is never called.  A connection that was rejected, or whose
\* DCB could not be created, never reaches init_connection.
C20_InitBeforeRead ==
    /\ [](\A c \in Conns :
            /\ init_calls[c] <= 1
            /\ read_calls[c] > 0 => (init_calls[c] = 1 /\ init_result[c] = "true")
            /\ init_result[c] = "false" =>
                  (conn_stage[c] = "closed" /\ read_calls[c] = 0)
            /\ (conn_stage[c] \in {"polling", "closed"} /\ acc_busy # c) =>
                  init_calls[c] = 1
            /\ conn_stage[c] \in {"none", "rejected", "failed", "created"} =>
                  (init_calls[c] = 0 /\ read_calls[c] = 0))
    /\ [][\A c \in Conns :
            read_calls'[c] # read_calls[c] =>
                (init_calls[c] = 1 /\ conn_stage[c] = "polling")]_vars

\* One connection was initialised and read from twice, another was closed
\* by a failed init_connection.
C20_Witness ==
    /\ \E c \in Conns : read_calls[c] = 2 /\ init_calls[c] = 1
    /\ \E c \in Conns : init_result[c] = "false" /\ conn_stage[c] = "closed"

(***************************************************************************)
(* Properties of the listener.                                             *)
(***************************************************************************)
\* C21: a connection accepted from a remote whose failed-authentication
\* counter has reached the limit is handled by reject_connection: no
\* ClientDCB is created, init_connection is not called and the connection
\* is closed.  A connection from a remote below the limit gets its
\* ClientDCB and init_connection, whatever the counters of other remotes.
C21_RejectOverLimit ==
    [][Len(l_conns') = Len(l_conns) + 1 =>
          LET c == l_conns'[Len(l_conns')] IN
             IF auth_failures[c.remote] >= AuthFailLimit
             THEN /\ c.rejected /\ ~c.dcb /\ c.init_calls = 0 /\ ~c.open
                  /\ reject_calls' = reject_calls + 1
             ELSE /\ ~c.rejected /\ c.dcb /\ c.init_calls = 1
                  /\ reject_calls' = reject_calls]_vars

\* A remote is over the limit; a connection from it was rejected and a
\* connection from another remote got its ClientDCB.
C21_Witness ==
    \E i, j \in DOMAIN l_conns :
       /\ i < j
       /\ auth_failures[l_conns[i].remote] >= AuthFailLimit
       /\ l_conns[i].rejected /\ l_conns[i].init_calls = 0
       /\ l_conns[j].remote # l_conns[i].remote
       /\ l_conns[j].dcb /\ l_conns[j].init_calls = 1

\* C22: stop() leaves the listening descriptor open and takes it out of the
\* readiness set; start() puts the same descriptor back and the listener is
\* Started and accepting; neither changes an accepted connection.
C22_StopStart ==
    /\ [][(l_state = "STARTED" /\ l_state' = "STOPPED") =>
             /\ l_fd' = l_fd /\ l_fd' = ListenFd /\ l_fd' \notin fds_closed'
             /\ ~l_polling'
             /\ l_conns' = l_conns]_vars
    /\ [][(l_state = "STOPPED" /\ l_state' = "STARTED") =>
             /\ l_fd' = l_fd /\ l_fd' = ListenFd /\ l_fd' \notin fds_closed'
             /\ l_polling'
             /\ l_conns' = l_conns]_vars

\* The listener was stopped and started; a client accepted before the stop
\* is still open and another client has been accepted after the start.
C22_Witness ==
    /\ l_state = "STARTED" /\ n_starts = 1
    /\ \E i, j \in DOMAIN l_conns :
          /\ l_conns[i].starts = 0 /\ l_conns[i].dcb /\ l_conns[i].open
          /\ l_conns[j].starts = 1 /\ l_conns[j].dcb

(***************************************************************************)
(* Properties of the broadcast that notifies the Avro clients.             *)
(***************************************************************************)
NotifyPending(w) == Len(SelectSeq(w_posted[w], LAMBDA t : t.kind = "notify"))

QueuedCallbacks(q) == SelectSeq(q, LAMBDA t : t.kind = "callback")

RegisteredOn(w, a) == \E i \in DOMAIN client_sessions[w] : client_sessions[w][i] = a

\* C23: every worker runs the task of a broadcast exactly once (what it has
\* run and what is still posted to it add up to the broadcasts made); a run
\* on a worker queues, on that worker, one client callback for each session
\* registered there whose router belongs to the service and none for any
\* other session, and no session is used on a worker other than its own.
C23_BroadcastOnce ==
    /\ [](\A w \in Workers : bc_runs[w] + NotifyPending(w) = n_broadcasts)
    /\ [](~foreign_touch)
    /\ [](\A w \in Workers : \A i \in DOMAIN w_posted[w] :
             w_posted[w][i].kind = "callback" => av_owner[w_posted[w][i].session] = w)
    /\ [][bc_runs' # bc_runs =>
            LET w == bc_last'.worker
                s == bc_last'.service
                expected == SelectSeq(client_sessions[w], LAMBDA a : av_service[a] = s)
            IN  /\ bc_runs' = [bc_runs EXCEPT ![w] = @ + 1]
                /\ \A a \in AvroIds :
                      cb_queued'[a] = IF RegisteredOn(w, a) /\ av_service[a] = s
                                      THEN 1 ELSE 0
                /\ QueuedCallbacks(w_posted'[w]) =
                      QueuedCallbacks(w_posted[w])
                         \o [i \in 1..Len(expected) |->
                               [kind |-> "callback", session |-> expected[i],
                                service |-> "none"]]
                /\ \A v \in Workers \ {w} :
                      QueuedCallbacks(w_posted'[v]) = QueuedCallbacks(w_posted[v])]_vars

\* A broadcast has run on every worker; on one worker a session of the
\* service got its callback and a session of another service got none.
C23_Witness ==
    /\ n_broadcasts = 1
    /\ \A w \in Workers : bc_runs[w] = 1
    /\ \E a, b \in AvroIds :
          /\ av_owner[a] # 0 /\ av_owner[a] = av_owner[b]
          /\ av_service[a] = bc_last.service /\ av_service[b] # bc_last.service
          /\ cb_queued[a] = 1 /\ cb_queued[b] = 0

(***************************************************************************)
(* Properties of worker affinity.                                          *)
(***************************************************************************)
OwnerOf(kind, d) ==
    IF kind = "session" THEN aff_owner[ClientDcb] ELSE aff_owner[d]

ConnectedTargets ==
    {sm_endpoints[i].target : i \in {j \in DOMAIN sm_endpoints : sm_endpoints[j].connect_ok}}

\* C28: create returns a session if and only if the configured master is
\* among the endpoints whose connect() succeeded; the clusters of a created
\* session are exactly those endpoints, one cluster each; the master is at
\* the first index and is the only cluster flagged is_master; and a query
\* written by write_to_master went to the master and to nothing else.
C28_CreateMasterFirst ==
    /\ sm_created # "none" =>
          (sm_created = "session" <=> sm_master \in ConnectedTargets)
    /\ sm_created = "session" =>
          /\ {m_clusters[i].target : i \in DOMAIN m_clusters} = ConnectedTargets
          /\ Len(m_clusters) = Cardinality(ConnectedTargets)
          /\ m_clusters[1].target = sm_master
          /\ \A i \in DOMAIN m_clusters : m_clusters[i].is_master <=> i = 1
    /\ sm_last.op = "routeQuery" /\ sm_last.via = "master" =>
          sm_last.written = {sm_master}

\* A session was created from endpoints that listed the master after
\* another connected endpoint, one endpoint failed to connect, and a query
\* has been written to the master.
C28_Witness ==
    /\ sm_created = "session"
    /\ sm_endpoints[1].target # sm_master
    /\ sm_endpoints[1].connect_ok
    /\ sm_last.op = "routeQuery"
    /\ sm_last.via = "master"
    /\ sm_last.written # {}

\* The clusters flagged is_replying_to_client.
ReplyingClusters == {i \in DOMAIN m_clusters : m_clusters[i].is_replying_to_client}

\* The held packet and the packets forwarded for the current query, in the
\* order they were forwarded.
HeldPackets == m_pDelayed_packet

\* The current query was written to every cluster.
FannedOut == sm_route \in {"all", "measure"} /\ sm_fault = "none"

\* C25: for a query written to all clusters, no cluster is flagged
\* is_replying_to_client before a response arrives; from the first response
\* on, the cluster it came from is the only one flagged; the packets
\* forwarded to the client are packets of that cluster, in the order they
\* were received and without a gap, so that no packet of another cluster
\* reaches the client; and while the session runs every packet of the winner
\* has been forwarded or is the one held back.
C25_FirstResponderWins ==
    FannedOut =>
       /\ sm_winner = "none" =>
             ReplyingClusters = {} /\ sm_client = <<>> /\ HeldPackets = <<>>
       /\ sm_winner # "none" =>
             ReplyingClusters = {ClusterOf(m_clusters, sm_winner)}
       /\ \A j \in DOMAIN sm_client :
             sm_client[j].from = sm_winner /\ sm_client[j].n = j
       /\ HeldPackets # <<>> =>
             /\ HeldPackets[1].from = sm_winner
             /\ HeldPackets[1].n = Len(sm_client) + 1
       /\ sm_terminated = "no" /\ sm_winner # "none" =>
             Len(sm_client) + Len(HeldPackets) = sm_nrecv[sm_winner]

\* A query written to all clusters has been answered by two of them: the
\* packets of the first were forwarded, the packet of the other was not.
C25_Witness ==
    /\ FannedOut
    /\ sm_winner # "none"
    /\ Len(sm_client) >= 2
    /\ \E t \in TargetSet : t # sm_winner /\ sm_nrecv[t] > 0
    /\ sm_terminated = "no"

\* The kinds of packet that end the response of a cluster.
FinalKinds == {"last", "err_other", "err_killed"}

\* A final packet has been forwarded to the client for the current query.
FinalForwarded == \E j \in DOMAIN sm_client : sm_client[j].kind \in FinalKinds

\* The step is a call of clientReply; sm_last' names the packet it was
\* given and the cluster the packet came from.
ClientReplyStep == sm_last'.op = "clientReply" /\ sm_nrecv' # sm_nrecv

\* What holds in every state of a running build about the held packet.
C26_HeldState ==
    sm_fault = "none" =>
       /\ FinalForwarded =>
             /\ ~expecting_response_packets(m_clusters)
             /\ m_mode = "Idle"
             /\ m_pDelayed_packet = <<>>
       /\ m_pDelayed_packet # <<>> =>
             /\ m_pDelayed_packet[1].kind \in FinalKinds
             /\ m_pDelayed_packet[1].from = sm_winner
             /\ ~tracker_expecting_response_packets(
                    m_clusters[ClusterOf(m_clusters, sm_winner)].tracker)
             /\ sm_terminated = "no" =>
                   expecting_response_packets(m_clusters) /\ m_mode = "CollectResults"
       /\ \A j, k \in DOMAIN sm_client : sm_client[j] = sm_client[k] => j = k

\* What every step of a running build does with the held packet: a packet
\* is put on hold only when none is held, and the response that leaves no
\* cluster expecting packets forwards the held packet, clears it and
\* returns the mode to Idle.
C26_HeldStep ==
    sm_fault' = "none" =>
       /\ m_pDelayed_packet' # <<>> /\ m_pDelayed_packet' # m_pDelayed_packet =>
             m_pDelayed_packet = <<>>
       /\ (/\ m_pDelayed_packet # <<>>
           /\ ClientReplyStep
           /\ sm_terminated' = "no"
           /\ ~expecting_response_packets(m_clusters')) =>
             /\ sm_client' = Append(sm_client, m_pDelayed_packet[1])
             /\ m_pDelayed_packet' = <<>>
             /\ m_mode' = "Idle"
       /\ m_pDelayed_packet # <<>> /\ m_pDelayed_packet' = <<>> =>
             sm_client' = Append(sm_client, m_pDelayed_packet[1])

\* C26: the final packet of the winning cluster reaches the client only
\* when no cluster expects response packets any more; a final packet of the
\* winner that arrives earlier is held, one packet at most, and the response
\* that completes the last cluster forwards it once, leaving the mode Idle
\* and nothing held.
C26_CompletionOrdering == []C26_HeldState /\ [][C26_HeldStep]_vars

\* The winner's last packet was held while another cluster was still
\* answering, and has now been forwarded by that cluster's last packet.
C26_Witness ==
    /\ sm_fault = "none"
    /\ sm_last.op = "clientReply"
    /\ sm_last.forwarded
    /\ m_clusters[sm_last.cluster].target # sm_winner
    /\ FinalForwarded
    /\ m_mode = "Idle"

\* The only mxb_assert of the smart router session that fails is the one of
\* a query that arrives while responses are collected.
SmartNoAssert == sm_fault \in {"none", "assert_busy"}

\* The step is a call of handleError.
HandleErrorStep == sm_last' # sm_last /\ sm_last'.op = "handleError"

\* C27: every call of handleError terminates the session with a copy of
\* the error packet and returns false; a response that drives the tracker
\* of its cluster into the Error state, and an error packet that carries
\* ER_CONNECTION_KILLED, terminate the session, and that packet is neither
\* forwarded to the client nor held; once terminated the session stays so.
C27_ErrorStep ==
    /\ HandleErrorStep =>
          /\ sm_terminated' = "error"
          /\ sm_last'.ret = FALSE
          /\ sm_client' = sm_client
    /\ (/\ ClientReplyStep
        /\ \/ m_clusters'[sm_last'.cluster].tracker.state = "Error"
           \/ sm_last'.packet = "err_killed") =>
          /\ sm_terminated' = "plain"
          /\ sm_client' = sm_client
          /\ m_pDelayed_packet' = m_pDelayed_packet
    /\ sm_terminated # "no" => sm_terminated' = sm_terminated

C27_ErrorsTerminate == [][C27_ErrorStep]_vars

\* The session has been terminated by a response: one that its tracker did
\* not expect, or a killed-connection error packet that arrived after data
\* of the same cluster had been forwarded.
C27_Witness ==
    /\ sm_terminated = "plain"
    /\ sm_last.op = "clientReply"
    /\ \/ sm_last.packet = "bad"
       \/ sm_last.packet = "err_killed" /\ Len(sm_client) > 0

\* The session has been terminated by handleError while a response was
\* being collected.
C27_WitnessHandleError ==
    /\ sm_terminated = "error"
    /\ sm_last.op = "handleError"
    /\ m_mode = "CollectResults"

\* The step is a call of routeQuery made while responses are collected: the
\* mode is not Idle and no cluster expects request packets.
BusyRouteQueryStep ==
    /\ sm_last' # sm_last
    /\ sm_last'.op = "routeQuery"
    /\ m_mode # "Idle"
    /\ ~expecting_request_packets(m_clusters)

\* C29: a routeQuery made while the responses of the previous query are
\* being collected returns failure, writes the buffer to no backend and
\* leaves the mode, the clusters with their trackers, the held packet and
\* the client's output as they were.
C29_BusyStep ==
    BusyRouteQueryStep =>
       /\ sm_last'.ret = FALSE
       /\ sm_last'.written = {}
       /\ m_mode' = m_mode
       /\ m_clusters' = m_clusters
       /\ m_pDelayed_packet' = m_pDelayed_packet
       /\ sm_client' = sm_client

AvroCallStep(op) == av_alive /\ av_last' # av_last /\ av_last'.op = op

\* The changes of AvroSession::state the claim allows.
AvroTransitions ==
    {<<"UNREGISTERED", "REGISTERED">>, <<"UNREGISTERED", "ERRORED">>,
     <<"REGISTERED", "REQUEST_DATA">>}

\* A REGISTER request that names a UUID and the type AVRO or JSON.
IsRegisterRequest(request) ==
    /\ Len(request) = 4
    /\ request[1] = "REGISTER UUID=" /\ request[2] # ""
    /\ request[3] = "TYPE=" /\ request[4] \in {"AVRO", "JSON"}

C30_AvroStep ==
    /\ av_state' # av_state => <<av_state, av_state'>> \in AvroTransitions
    /\ av_state = "UNREGISTERED" /\ av_state' = "REGISTERED" =>
          /\ av_last'.op = "routeQuery"
          /\ IsRegisterRequest(av_last'.request)
          /\ av_last'.rval = 1
    /\ AvroCallStep("routeQuery") /\ av_state = "UNREGISTERED"
          /\ ~IsRegisterRequest(av_last'.request) =>
          /\ av_state' = "ERRORED"
          /\ av_dcb_closed'
          /\ av_last'.rval = 0
    /\ AvroCallStep("routeQuery") /\ av_state = "ERRORED" =>
          /\ av_last'.rval = 0
          /\ ~av_last'.processed
          /\ av_cbq' = av_cbq
          /\ av_binfile' = av_binfile
    /\ AvroCallStep("callback") /\ av_last'.ran => av_state = "REQUEST_DATA"
    /\ av_cbq' > av_cbq /\ av_last'.op = "routeQuery" => av_state' = "REQUEST_DATA"

\* A session whose state is REGISTERED or REQUEST_DATA has the format that
\* a successful registration set.
C30_AvroState ==
    av_state \in {"REGISTERED", "REQUEST_DATA"} => av_format \in {"AVRO", "JSON"}

\* C30: while the session exists, its state changes only from UNREGISTERED
\* to REGISTERED, by a routeQuery with a well-formed REGISTER request, from
\* UNREGISTERED to ERRORED, by a routeQuery with any other request, which
\* also closes the DCB and returns 0, and from REGISTERED to REQUEST_DATA;
\* ERRORED is left by no step and a routeQuery in ERRORED returns 0 without
\* processing a command; client_callback is executed only in state
\* REQUEST_DATA, so only after a successful registration.
C30_AvroStateMachine == []C30_AvroState /\ [][C30_AvroStep]_vars

\* A registered session that requested data has run its client callback.
C30_Witness ==
    /\ av_alive
    /\ av_state = "REQUEST_DATA"
    /\ av_last.op = "callback"
    /\ av_last.ran

\* A session whose registration failed has been called again and returned 0.
C30_WitnessErrored ==
    /\ av_alive
    /\ av_state = "ERRORED"
    /\ av_dcb_closed
    /\ av_last.op = "routeQuery"
    /\ av_last.before = "ERRORED"
    /\ av_last.rval = 0

\* C34: between the calls of a session that runs, the mode is Idle exactly
\* when no cluster's packet tracker expects response packets; and while a
\* response is expected and none has arrived for the query, the mode is
\* Query or MeasureQuery, also after the last packet of a split request has
\* been written, so that the first response packet is taken as the first.
C34_ModeInvariant ==
    sm_created = "session" /\ sm_terminated = "no" /\ sm_fault = "none" =>
       /\ m_mode = "Idle" <=> ~expecting_response_packets(m_clusters)
       /\ expecting_response_packets(m_clusters) /\ sm_winner = "none" =>
             m_mode \in {"Query", "MeasureQuery"}

\* The last packet of a split request has just been written to every
\* cluster: none expects request packets, all expect a response, and the
\* mode is not Idle.
C34_Witness ==
    /\ sm_terminated = "no" /\ sm_fault = "none"
    /\ sm_last.op = "routeQuery" /\ sm_last.via = "split" /\ sm_last.ret
    /\ ~expecting_request_packets(m_clusters)
    /\ Len(m_clusters) > 1
    /\ \A i \in DOMAIN m_clusters :
          tracker_expecting_response_packets(m_clusters[i].tracker)
    /\ m_mode # "Idle"

(***************************************************************************)
(* Book-keeping after a short-circuited statement.                         *)
(***************************************************************************)
\* The statements against whose ring entries the step has booked a response.
BookedAgainst ==
    {m_last_queries'[i].stmt : i \in
        {j \in 1..Len(m_last_queries') :
            \E k \in 1..Len(m_last_queries) :
               /\ m_last_queries[k].stmt = m_last_queries'[j].stmt
               /\ m_last_queries'[j].booked # m_last_queries[k].booked}}

\* The statement is held by the ring.
InRing(stmt) == \E i \in RingIndexes : m_last_queries[i].stmt = stmt

\* A server response to the oldest outstanding statement is booked.
ServerResponseStep ==
    /\ ServerResponseFinal \/ ServerResponsePartial
    /\ fault' = "none"

\* C32 (as stated): once a short-circuited statement has been booked as
\* complete by deliver_response, the server response to the next retained
\* statement is booked against that next statement and never against the
\* completed one.
C32_Original ==
    [][(/\ ServerResponseStep
        /\ Head(outstanding) - 1 \in short_circuited
        /\ InRing(Head(outstanding)) /\ InRing(Head(outstanding) - 1)
        /\ StatementComplete(m_last_queries, Head(outstanding) - 1))
          => BookedAgainst = {Head(outstanding)}]_vars

\* C39 (as stated): for every ring depth N >= 1, when every retained
\* statement receives exactly one final response, in order, no book-keeping
\* assertion fails: the index is -1 just before the ring holds its single
\* entry, it is at least 0 when a response is booked, it never goes below -1
\* and no response is booked on a complete entry.
C39_Original ==
    (only_stream /\ m_retain_last_statements >= 1) =>
        /\ fault = "none"
        /\ ~oob
        /\ m_current_query >= -1
        /\ \A i \in RingIndexes : Cardinality(m_last_queries[i].booked) <= 1

\* The same for ring depths N >= 2.
C39_DepthTwoOrMore ==
    (only_stream /\ m_retain_last_statements >= 2) =>
        /\ fault = "none"
        /\ ~oob
        /\ m_current_query >= -1
        /\ \A i \in RingIndexes : Cardinality(m_last_queries[i].booked) <= 1

(***************************************************************************)
(* Writes to the client connection of a terminated session.                *)
(***************************************************************************)
\* terminate() has moved the session to STOPPING and closed the client DCB.
Terminated == term_closes > 0 /\ client_nclose > 0 /\ m_state = "STOPPING"

\* C38 (as stated): once terminate() has closed the client DCB, a later
\* handleError (and the clientReply it makes) or a second terminate(error)
\* does not call the write of the client protocol.
C38_Original ==
    [][(Terminated /\ (HandleError \/ TerminateError \/ TerminateNoError))
          => client_log' = client_log]_vars

\* The part of C38 about a second terminate(error).
C38_SecondTerminate ==
    [][(Terminated /\ (TerminateError \/ TerminateNoError))
          => client_log' = client_log]_vars

(***************************************************************************)
(* The session counter of the service.                                     *)
(***************************************************************************)
\* The number of sessions that were started and have not been freed.
StartedNotFreed == IF n_connections = 1 /\ freed = 0 THEN 1 ELSE 0

\* C37 (as stated): n_current equals the number of sessions that were
\* started and are not yet freed; a session whose start() failed leaves it
\* unchanged over its whole life, and it never goes below zero.
C37_Original ==
    /\ n_current = StartedNotFreed
    /\ n_current >= 0

\* The part of C37 about start(): both counters move by one on success and
\* stay on failure.
C37_StartCounts ==
    [][Start =>
          IF session_rv' = "true"
          THEN /\ n_current' = n_current + 1
               /\ n_connections' = n_connections + 1
          ELSE /\ n_current' = n_current
               /\ n_connections' = n_connections]_vars

(***************************************************************************)
(* Properties of the DCB read queue.                                       *)
(***************************************************************************)
\* The bytes that arrived and were not processed, in the order of arrival.
Unconsumed == [i \in 1..(rq_arrived - rq_consumed) |-> rq_consumed + i]

\* C33: readq_release hands over the whole queue and leaves it empty,
\* readq_prepend puts its buffer in front of the queue and readq_append
\* behind it; what the protocol holds followed by the queue, and the queue
\* alone once the remainder is back, is the unconsumed bytes in their
\* order of arrival.
C33_ReadqOrder ==
    /\ [](rq_held \o m_readq = Unconsumed)
    /\ [](rq_pc = "idle" => m_readq = Unconsumed)
    /\ [][/\ ReadqRelease => (rq_held' = m_readq /\ m_readq' = <<>>)
          /\ ReadqPrepend => m_readq' = rq_held \o m_readq
          /\ ReadqAppend =>
                \E n \in 1..MaxBuf :
                   m_readq' = m_readq \o [i \in 1..n |-> rq_arrived + i]]_vars

\* A remainder has been put back in front of bytes that arrived while the
\* protocol held the queue, and more bytes were appended afterwards.
C33_Witness ==
    /\ rq_pc = "idle"
    /\ rq_case = "appended"
    /\ rq_consumed > 0
    /\ Len(m_readq) >= 3

(***************************************************************************)
(* Queued callbacks and the life time of the Avro session.                 *)
(***************************************************************************)
\* C36 (as stated): a queued callback never runs against a destroyed
\* AvroSession: when the session is destroyed none of its callbacks is left
\* in the queue of the worker, and no callback has run on the freed object.
C36_Original ==
    /\ ~av_alive => av_cbq = 0
    /\ av_dangling = "none"

(***************************************************************************)
(* Properties of the streaming of Avro files.                              *)
(***************************************************************************)
\* The data blocks the client has received, in order.
BlocksSent == SelectSeq(st_sent, LAMBDA item : item[2] > 0)

\* The blocks of the file, in order.
FileBlocks(f) == [b \in 1..st_nblocks[f] |-> <<f, b>>]

RECURSIVE BlocksUpTo(_)
\* The blocks of the files 1..f, in the order of the file numbers.
BlocksUpTo(f) == IF f = 0 THEN <<>> ELSE BlocksUpTo(f - 1) \o FileBlocks(f)

\* A callback has sent data of the current file.
StreamCallbackStep == st_last'.op = "callback" /\ st_sent' # st_sent

\* C35 (as stated): the rotation skips no record: the blocks are sent file
\* by file in the order of the file numbers, every file completely, also
\* when a burst ends with unread blocks while the next file exists.
C35_Original == IsPrefix(BlocksSent, BlocksUpTo(MaxFiles))

\* Data of the file the callback was working on remains to be sent.
DataRemains(h) == h.unread

====
